---- MODULE Spec2Model ----
(***************************************************************************)
(* Verification model of EventStream/data/config.py: the schema unifier    *)
(* (InputDFSchema._unify_schema), InputDFSchema, DatasetSchema and         *)
(* MeasurementConfig.  Python None is the string "None" for scalar fields  *)
(* and a record of kind "none" for the metadata slot.                      *)
(***************************************************************************)
EXTENDS Integers, Sequences, FiniteSets, TLC

VARIABLES mc, storage, last, inp, res

\* mc, storage, last: a MeasurementConfig, the files it caches to, the last call.
\* inp, res: the arguments of a schema construction and what it produced.
mcvars == <<mc, storage, last>>

schvars == <<inp, res>>

vars == <<mc, storage, last, inp, res>>

Idle == "idle"

None == "None"

(***************************************************************************)
(* Enumerations (EventStream/data/types.py)                                *)
(***************************************************************************)
TemporalityType == {"static", "dynamic", "functional_time_dependent"}

DataModality == {"dropped", "single_label_classification", "multi_label_classification",
                 "multivariate_regression", "univariate_regression"}

FUNCTORS == {"AgeFunctor", "TimeOfDayFunctor"}

\* The output modality each registered functor class declares.
OUTPUT_MODALITY(f) == IF f = "AgeFunctor" THEN "univariate_regression"
                      ELSE "single_label_classification"

PREPROCESSING_METADATA_COLUMNS == {"value_type", "outlier_model", "normalizer"}

\* The labels whose cells the getter passes through eval after loading.
EvalCols == {"outlier_model", "normalizer"}

(***************************************************************************)
(* Metadata values.  A table (pd.DataFrame) has row labels `index` and     *)
(* column labels `columns`; a series (pd.Series) has only `index`.  `fill` *)
(* abstracts the cell contents: "null" = every cell is None/NaN, "obj" =   *)
(* every cell holds its typed value (outlier_model / normalizer cells hold *)
(* Python objects), "str" = outlier_model / normalizer cells hold the      *)
(* textual repr of those objects, "mixed" = outlier_model / normalizer     *)
(* cells are None/NaN and the other cells hold their values, "nan" = every *)
(* cell is a float NaN (a numeric column without values).                  *)
(***************************************************************************)
Paths == {"P", "Q"}

MetaNone == [kind |-> "none", index |-> {}, columns |-> {}, fill |-> "null", path |-> None]

MetaPath(p) == [kind |-> "path", index |-> {}, columns |-> {}, fill |-> "null", path |-> p]

\* A slot value that is neither None, a table, a series, a str nor a Path.
MetaOther == [kind |-> "other", index |-> {}, columns |-> {}, fill |-> "null", path |-> None]

\* Cells exist only if there is at least one row (and, for a table, one column);
\* "str" and "obj" differ only on outlier_model / normalizer cells.
Norm(v) ==
    LET nocells == v.index = {} \/ (v.kind = "df" /\ v.columns = {})
        f == IF nocells THEN "null"
             ELSE IF v.fill = "str" /\ (v.index \cup v.columns) \cap EvalCols = {} THEN "obj"
             ELSE v.fill
    IN [v EXCEPT !.fill = f]

Series(idx, f) == Norm([kind |-> "series", index |-> idx, columns |-> {}, fill |-> f, path |-> None])

DataFrame(idx, cols, f) == Norm([kind |-> "df", index |-> idx, columns |-> cols, fill |-> f, path |-> None])

ColChoices == {{"value_type"}, PREPROCESSING_METADATA_COLUMNS}

RowChoices == {{}, {"k1"}}

InputFills == {"null", "obj"}

\* The in-memory metadata values callers supply.
MetaVals == {Series(i, f) : i \in ColChoices, f \in InputFills}
            \cup {DataFrame(r, c, f) : r \in RowChoices, c \in ColChoices, f \in InputFills}

IsInMemory(m) == m.kind \in {"df", "series"}

IsPath(m) == m.kind = "path"

(***************************************************************************)
(* Storage: path -> the CSV text last written there.                       *)
(***************************************************************************)
Absent == [exists |-> FALSE, index |-> {}, columns |-> {}, text |-> "empty"]

\* DataFrame.to_csv / Series.to_csv: a series is written as a one-column table
\* (header "0"); None and NaN are written as empty fields, everything else as
\* its str().
to_csv(v) ==
    [exists |-> TRUE,
     index |-> v.index,
     columns |-> IF v.kind = "series" THEN {"0"} ELSE v.columns,
     text |-> IF v.fill \in {"null", "nan"} THEN "empty"
              ELSE IF v.fill = "mixed" THEN "mixed" ELSE "text"]

\* pd.read_csv(fp, index_col=0): always a table; empty fields load as NaN and
\* every other field as text.
read_csv(c) ==
    DataFrame(c.index, c.columns,
              IF c.text = "empty" THEN "null" ELSE IF c.text = "mixed" THEN "mixed" ELSE "str")

Ret(exc, val) == [exc |-> exc, val |-> val]

\* The measurement_metadata property getter.
measurement_metadata(cfg, st) ==
    LET m == cfg.meta IN
    IF m.kind \in {"none", "df", "series"} THEN Ret("none", m)
    ELSE IF m.kind = "path" THEN
        IF ~st[m.path].exists THEN Ret("FileNotFoundError", MetaNone)
        ELSE
        LET out == read_csv(st[m.path]) IN
        IF cfg.modality = "univariate_regression" THEN
            IF Cardinality(out.columns) # 1 THEN Ret("ValueError", MetaNone)
            ELSE IF out.index \cap EvalCols # {} /\ out.fill \in {"null", "mixed"}
                 THEN Ret("TypeError", MetaNone)
            ELSE Ret("none", Series(out.index, IF out.index \cap EvalCols # {} THEN "obj" ELSE out.fill))
        ELSE IF cfg.modality # "multivariate_regression" THEN Ret("ValueError", MetaNone)
        ELSE IF out.columns \cap EvalCols # {} /\ out.index # {} /\ out.fill \in {"null", "mixed"}
             THEN Ret("TypeError", MetaNone)
        ELSE Ret("none", DataFrame(out.index, out.columns,
                                   IF out.columns \cap EvalCols # {} THEN "obj" ELSE out.fill))
    ELSE Ret("RecursionError", MetaNone)

is_numeric(cfg) == cfg.modality \in {"multivariate_regression", "univariate_regression"}

(***************************************************************************)
(* MeasurementConfig._validate                                             *)
(***************************************************************************)
Config(nm, t, m, f, voc, vc, md) ==
    [name |-> nm, temporality |-> t, modality |-> m, observation_frequency |-> None,
     functor |-> f, vocabulary |-> voc, values_column |-> vc, meta |-> md]

Check(exc, errs, modality) == [exc |-> exc, errs |-> errs, modality |-> modality]

\* Mutant of temporality_checks: the dynamic / single-label rejection is missing.
temporality_checks_no_single_label_check(cfg) ==
    IF cfg.temporality \in {"static", "dynamic"} THEN
        IF cfg.functor # None THEN Check("ValueError", {"functor_forbidden"}, cfg.modality)
        ELSE IF cfg.temporality = "static" /\ is_numeric(cfg)
             THEN Check("NotImplementedError", {"numeric_on_static"}, cfg.modality)
        ELSE Check("none", {}, cfg.modality)
    ELSE IF cfg.temporality = "functional_time_dependent" THEN
        IF cfg.functor = None THEN Check("ValueError", {"functor_required"}, cfg.modality)
        ELSE IF cfg.modality = None THEN Check("none", {}, OUTPUT_MODALITY(cfg.functor))
        ELSE IF cfg.modality \notin {"dropped", OUTPUT_MODALITY(cfg.functor)}
             THEN Check("ValueError", {"modality_not_functor_output"}, cfg.modality)
        ELSE Check("none", {}, cfg.modality)
    ELSE Check("ValueError", {"bad_temporality"}, cfg.modality)

\* Mutant of temporality_checks: a functional_time_dependent config accepts any
\* modality, not only dropped or the functor's output modality.
temporality_checks_any_functor_modality(cfg) ==
    IF cfg.temporality = "static" THEN
        IF cfg.functor # None THEN Check("ValueError", {"functor_forbidden"}, cfg.modality)
        ELSE IF is_numeric(cfg) THEN Check("NotImplementedError", {"numeric_on_static"}, cfg.modality)
        ELSE Check("none", {}, cfg.modality)
    ELSE IF cfg.temporality = "dynamic" THEN
        IF cfg.functor # None THEN Check("ValueError", {"functor_forbidden"}, cfg.modality)
        ELSE IF cfg.modality = "single_label_classification"
             THEN Check("ValueError", {"single_label_on_dynamic"}, cfg.modality)
        ELSE Check("none", {}, cfg.modality)
    ELSE IF cfg.temporality = "functional_time_dependent" THEN
        IF cfg.functor = None THEN Check("ValueError", {"functor_required"}, cfg.modality)
        ELSE IF cfg.modality = None THEN Check("none", {}, OUTPUT_MODALITY(cfg.functor))
        ELSE Check("none", {}, cfg.modality)
    ELSE Check("ValueError", {"bad_temporality"}, cfg.modality)

\* The first match statement of _validate: each violation raises at once.
temporality_checks(cfg) ==
    IF cfg.temporality = "static" THEN
        IF cfg.functor # None THEN Check("ValueError", {"functor_forbidden"}, cfg.modality)
        ELSE IF is_numeric(cfg) THEN Check("NotImplementedError", {"numeric_on_static"}, cfg.modality)
        ELSE Check("none", {}, cfg.modality)
    ELSE IF cfg.temporality = "dynamic" THEN
        IF cfg.functor # None THEN Check("ValueError", {"functor_forbidden"}, cfg.modality)
        ELSE IF cfg.modality = "single_label_classification"
             THEN Check("ValueError", {"single_label_on_dynamic"}, cfg.modality)
        ELSE Check("none", {}, cfg.modality)
    ELSE IF cfg.temporality = "functional_time_dependent" THEN
        IF cfg.functor = None THEN Check("ValueError", {"functor_required"}, cfg.modality)
        ELSE IF cfg.modality = None THEN Check("none", {}, OUTPUT_MODALITY(cfg.functor))
        ELSE IF cfg.modality \notin {"dropped", OUTPUT_MODALITY(cfg.functor)}
             THEN Check("ValueError", {"modality_not_functor_output"}, cfg.modality)
        ELSE Check("none", {}, cfg.modality)
    ELSE Check("ValueError", {"bad_temporality"}, cfg.modality)

\* Mutant of modality_checks: raises at the first violated constraint.
modality_checks_first_only(cfg, st) ==
    LET g == measurement_metadata(cfg, st)
        m == cfg.modality
        vc == IF m = "multivariate_regression" /\ cfg.values_column = None
                THEN {"values_column_required"}
              ELSE IF m \in {"univariate_regression", "single_label_classification",
                             "multi_label_classification"} /\ cfg.values_column # None
                THEN {"values_column_forbidden"}
              ELSE IF m = "dropped" /\ cfg.vocabulary # None THEN {"vocabulary_forbidden"}
              ELSE {}
        md == IF m = "multivariate_regression" /\ g.val.kind \notin {"none", "df"}
                THEN {"metadata_not_dataframe"}
              ELSE IF m = "univariate_regression" /\ g.val.kind \notin {"none", "series"}
                THEN {"metadata_not_series"}
              ELSE IF ~is_numeric(cfg) /\ cfg.meta.kind # "none" THEN {"metadata_forbidden"}
              ELSE {}
    IN  IF m \notin DataModality THEN Check("ValueError", {"bad_modality"}, m)
        ELSE IF vc # {} THEN Check("ValueError", vc, m)
        ELSE IF (is_numeric(cfg) \/ cfg.meta.kind # "none") /\ g.exc # "none"
             THEN Check(g.exc, {"metadata_unreadable"}, m)
        ELSE IF md # {} THEN Check("ValueError", md, m)
        ELSE Check("none", {}, m)

\* The second match statement of _validate: violations are collected in
\* err_strings and raised together.  Reading measurement_metadata (in a
\* condition or while formatting a message) may itself raise.
modality_checks(cfg, st) ==
    LET g == measurement_metadata(cfg, st)
        m == cfg.modality
        vc == IF m = "multivariate_regression" /\ cfg.values_column = None
                THEN {"values_column_required"}
              ELSE IF m \in {"univariate_regression", "single_label_classification",
                             "multi_label_classification"} /\ cfg.values_column # None
                THEN {"values_column_forbidden"}
              ELSE IF m = "dropped" /\ cfg.vocabulary # None THEN {"vocabulary_forbidden"}
              ELSE {}
        md == IF m = "multivariate_regression" /\ g.val.kind \notin {"none", "df"}
                THEN {"metadata_not_dataframe"}
              ELSE IF m = "univariate_regression" /\ g.val.kind \notin {"none", "series"}
                THEN {"metadata_not_series"}
              ELSE IF ~is_numeric(cfg) /\ cfg.meta.kind # "none" THEN {"metadata_forbidden"}
              ELSE {}
    IN  IF m \notin DataModality THEN Check("ValueError", {"bad_modality"}, m)
        ELSE IF (is_numeric(cfg) \/ cfg.meta.kind # "none") /\ g.exc # "none"
             THEN Check(g.exc, {"metadata_unreadable"}, m)
        ELSE IF vc \cup md # {} THEN Check("ValueError", vc \cup md, m)
        ELSE Check("none", {}, m)

validate(cfg, st) ==
    LET t == temporality_checks(cfg) IN
    IF t.exc # "none" THEN t
    ELSE modality_checks([cfg EXCEPT !.modality = t.modality], st)

\* MeasurementConfig.__init__ + __post_init__: the constructed object, or the
\* exception raised.
construct(cfg, st) ==
    LET r == validate(cfg, st) IN
    [exc |-> r.exc, errs |-> r.errs,
     cfg |-> IF r.exc = "none" THEN [cfg EXCEPT !.modality = r.modality] ELSE cfg]

(***************************************************************************)
(* MeasurementConfig operations.  Each returns the object and the storage  *)
(* after the call and the exception raised ("none" if it returned).        *)
(***************************************************************************)
Out(cfg, st, exc) == [cfg |-> cfg, st |-> st, exc |-> exc]

\* Mutant of drop: the metadata slot is not cleared.
drop_keeps_metadata(cfg) == [cfg EXCEPT !.modality = "dropped", !.vocabulary = None]

drop(cfg) == [cfg EXCEPT !.modality = "dropped", !.meta = MetaNone, !.vocabulary = None]

\* The measurement_metadata property setter.
measurement_metadata_setter(cfg, st, new) ==
    IF new.kind = "none" THEN Out([cfg EXCEPT !.meta = MetaNone], st, "none")
    ELSE IF IsPath(cfg.meta)
         THEN Out(cfg, [st EXCEPT ![cfg.meta.path] = to_csv(new)], "none")
    ELSE Out([cfg EXCEPT !.meta = new], st, "none")

\* Mutant of cache_measurement_metadata: an already cached config is re-cached
\* at the new path instead of raising.
cache_measurement_metadata_recaches(cfg, st, fp) ==
    LET g == measurement_metadata(cfg, st) IN
    IF IsPath(cfg.meta) /\ fp = cfg.meta.path THEN Out(cfg, st, "none")
    ELSE IF g.exc # "none" THEN Out(cfg, st, g.exc)
    ELSE IF g.val.kind = "none" THEN Out(cfg, st, "none")
    ELSE Out([cfg EXCEPT !.meta = MetaPath(fp)], [st EXCEPT ![fp] = to_csv(g.val)], "none")

cache_measurement_metadata(cfg, st, fp) ==
    IF IsPath(cfg.meta) THEN
        IF fp # cfg.meta.path THEN Out(cfg, st, "ValueError") ELSE Out(cfg, st, "none")
    ELSE
    LET g == measurement_metadata(cfg, st) IN
    IF g.exc # "none" THEN Out(cfg, st, g.exc)
    ELSE IF g.val.kind = "none" THEN Out(cfg, st, "none")
    ELSE Out([cfg EXCEPT !.meta = MetaPath(fp)], [st EXCEPT ![fp] = to_csv(g.val)], "none")

uncache_measurement_metadata(cfg, st) ==
    IF cfg.meta.kind = "none" THEN Out(cfg, st, "none")
    ELSE IF ~IsPath(cfg.meta) THEN Out(cfg, st, "ValueError")
    ELSE
    LET g == measurement_metadata(cfg, st) IN
    IF g.exc # "none" THEN Out(cfg, st, g.exc)
    ELSE Out([cfg EXCEPT !.meta = g.val], st, "none")

add_empty_metadata(cfg, st) ==
    LET g == measurement_metadata(cfg, st) IN
    IF g.exc # "none" THEN Out(cfg, st, g.exc)
    ELSE IF g.val.kind # "none" THEN Out(cfg, st, "ValueError")
    ELSE IF cfg.modality = "univariate_regression"
         THEN Out([cfg EXCEPT !.meta = Series(PREPROCESSING_METADATA_COLUMNS, "null")], st, "none")
    ELSE IF cfg.modality = "multivariate_regression"
         THEN Out([cfg EXCEPT !.meta = DataFrame({}, PREPROCESSING_METADATA_COLUMNS, "null")], st, "none")
    ELSE Out(cfg, st, "ValueError")

\* The value after the missing mandatory labels have been added with None
\* cells: columns of a table, index labels of a series.
with_mandatory_cols(v) ==
    LET have == IF v.kind = "df" THEN v.columns ELSE v.index
        f == IF PREPROCESSING_METADATA_COLUMNS \subseteq have \/ v.fill = "null" THEN v.fill
             ELSE "mixed"
    IN  IF v.kind = "df" THEN DataFrame(v.index, v.columns \cup PREPROCESSING_METADATA_COLUMNS, f)
        ELSE Series(v.index \cup PREPROCESSING_METADATA_COLUMNS, f)

\* The labels are added to the object the getter returns: the slot's own value
\* when it is held in memory, a value freshly loaded from storage (and then
\* discarded) when the slot is a path.
add_missing_mandatory_metadata_cols(cfg, st) ==
    LET g == measurement_metadata(cfg, st) IN
    IF ~is_numeric(cfg) THEN Out(cfg, st, "ValueError")
    ELSE IF g.exc # "none" THEN Out(cfg, st, g.exc)
    ELSE IF g.val.kind = "none" THEN add_empty_metadata(cfg, st)
    ELSE IF IsInMemory(cfg.meta) THEN Out([cfg EXCEPT !.meta = with_mandatory_cols(cfg.meta)], st, "none")
    ELSE Out(cfg, st, "none")

(***************************************************************************)
(* The MeasurementConfig state machine: one config object, the storage it  *)
(* caches to, and the last call made on it.                                *)
(***************************************************************************)
\* The last call: its name, the exception it raised, the error list of a failed
\* construction, the path argument of cache (for an assignment: the path the
\* config was cached at), and the value assigned, read, or cached in-memory
\* value (kept over a directly following uncache).
Last(op, exc) == [op |-> op, exc |-> exc, errs |-> {}, path |-> None, val |-> MetaNone]

NoFiles == [p \in Paths |-> Absent]

OptTemporality == TemporalityType \cup {None}

OptModality == DataModality \cup {None}

OptFunctor == FUNCTORS \cup {None}

SlotInputs == {MetaNone} \cup MetaVals \cup {MetaPath(p) : p \in Paths}

\* The keyword arguments a caller passes to MeasurementConfig(...).
ConfigInputs ==
    {Config("m", t, m, f, voc, vc, md) :
        t \in OptTemporality, m \in OptModality, f \in OptFunctor,
        voc \in {None, "vocab"}, vc \in {None, "vals"}, md \in SlotInputs}

\* The objects construction yields when nothing has been cached yet.
Constructed == {construct(c, NoFiles).cfg : c \in {x \in ConfigInputs : construct(x, NoFiles).exc = "none"}}

InitMC ==
    /\ mc \in Constructed
    /\ storage = NoFiles
    /\ last = Last("init", "none")
    /\ inp = Idle /\ res = Idle

Drop ==
    /\ mc' = drop(mc)
    /\ last' = Last("drop", "none")
    /\ UNCHANGED <<storage, inp, res>>

SetMetadata ==
    \E new \in MetaVals \cup {MetaNone} :
        LET r == measurement_metadata_setter(mc, storage, new) IN
        /\ mc' = r.cfg
        /\ storage' = r.st
        /\ last' = [Last("set", r.exc) EXCEPT
                        !.val = new,
                        !.path = IF IsPath(mc.meta) THEN mc.meta.path ELSE None]
        /\ UNCHANGED schvars

CacheMetadata ==
    \E fp \in Paths :
        LET r == cache_measurement_metadata(mc, storage, fp) IN
        /\ mc' = r.cfg
        /\ storage' = r.st
        /\ last' = [Last("cache", r.exc) EXCEPT
                        !.path = fp,
                        !.val = IF IsInMemory(mc.meta) THEN mc.meta ELSE MetaNone]
        /\ UNCHANGED schvars

UncacheMetadata ==
    LET r == uncache_measurement_metadata(mc, storage) IN
    /\ mc' = r.cfg
    /\ storage' = r.st
    /\ last' = [Last("uncache", r.exc) EXCEPT
                    !.val = IF last.op = "cache" /\ last.exc = "none" THEN last.val ELSE MetaNone]
    /\ UNCHANGED schvars

ReadMetadata ==
    /\ LET g == measurement_metadata(mc, storage) IN last' = [Last("read", g.exc) EXCEPT !.val = g.val]
    /\ UNCHANGED <<mc, storage, inp, res>>

AddEmptyMetadata ==
    LET r == add_empty_metadata(mc, storage) IN
    /\ mc' = r.cfg
    /\ storage' = r.st
    /\ last' = Last("add_empty", r.exc)
    /\ UNCHANGED schvars

AddMissingMandatoryMetadataCols ==
    LET r == add_missing_mandatory_metadata_cols(mc, storage) IN
    /\ mc' = r.cfg
    /\ storage' = r.st
    /\ last' = Last("add_missing", r.exc)
    /\ UNCHANGED schvars

NextMC == Drop \/ SetMetadata \/ CacheMetadata \/ UncacheMetadata \/ ReadMetadata

\* The same machine with add_empty_metadata and
\* add_missing_mandatory_metadata_cols, started from the dynamic measures.
InitMetadataCols ==
    /\ mc \in {c \in Constructed : c.temporality = "dynamic" /\ c.vocabulary = None}
    /\ storage = NoFiles
    /\ last = Last("init", "none")
    /\ inp = Idle /\ res = Idle

NextMetadataCols ==
    \/ Drop \/ SetMetadata \/ CacheMetadata \/ UncacheMetadata \/ ReadMetadata
    \/ AddEmptyMetadata \/ AddMissingMandatoryMetadataCols

SpecMetadataCols == InitMetadataCols /\ [][NextMetadataCols]_vars

SpecMC == InitMC /\ [][NextMC]_vars

(***************************************************************************)
(* Construction of a MeasurementConfig from arbitrary keyword arguments:   *)
(* mc holds the arguments, then the constructed object (or the arguments   *)
(* again if construction raised); last holds the outcome.                  *)
(***************************************************************************)
FilesAtInit == {NoFiles} \cup {[NoFiles EXCEPT !["P"] = to_csv(v)] : v \in MetaVals}

InitConstruct ==
    /\ mc \in ConfigInputs \cup {Config("m", t, m, None, None, None, MetaOther) :
                                    t \in TemporalityType, m \in DataModality}
    /\ storage \in FilesAtInit
    /\ last = Last("init", "none")
    /\ inp = Idle /\ res = Idle

Construct ==
    /\ last.op = "init"
    /\ LET r == construct(mc, storage) IN
        /\ mc' = r.cfg
        /\ last' = [Last("construct", r.exc) EXCEPT !.errs = r.errs]
    /\ UNCHANGED <<storage, inp, res>>

NextConstruct == Construct

SpecConstruct == InitConstruct /\ [][NextConstruct]_vars

Constructing == last.op = "construct"

TemporalityViolations(cfg) ==
    {e \in {"functor_forbidden", "numeric_on_static", "single_label_on_dynamic",
            "functor_required", "modality_not_functor_output", "bad_temporality"} :
        \/ e = "functor_forbidden" /\ cfg.temporality \in {"static", "dynamic"} /\ cfg.functor # None
        \/ e = "numeric_on_static" /\ cfg.temporality = "static" /\ is_numeric(cfg)
        \/ e = "single_label_on_dynamic" /\ cfg.temporality = "dynamic"
              /\ cfg.modality = "single_label_classification"
        \/ e = "functor_required" /\ cfg.temporality = "functional_time_dependent"
              /\ cfg.functor = None
        \/ e = "modality_not_functor_output" /\ cfg.temporality = "functional_time_dependent"
              /\ cfg.functor # None
              /\ cfg.modality \notin {None, "dropped", OUTPUT_MODALITY(cfg.functor)}
        \/ e = "bad_temporality" /\ cfg.temporality \notin TemporalityType}

\* The modality a functional_time_dependent config defaults to.
EffectiveModality(cfg) ==
    IF cfg.temporality = "functional_time_dependent" /\ cfg.functor # None /\ cfg.modality = None
    THEN OUTPUT_MODALITY(cfg.functor) ELSE cfg.modality

\* The modality-field constraints the arguments violate (metadata absent or
\* held in memory).
ModalityViolations(cfg) ==
    LET m == EffectiveModality(cfg) IN
    {e \in {"values_column_required", "values_column_forbidden", "vocabulary_forbidden",
            "metadata_forbidden", "metadata_not_dataframe", "metadata_not_series",
            "bad_modality"} :
        \/ e = "values_column_required" /\ m = "multivariate_regression" /\ cfg.values_column = None
        \/ e = "values_column_forbidden" /\ cfg.values_column # None
              /\ m \in {"univariate_regression", "single_label_classification",
                        "multi_label_classification"}
        \/ e = "vocabulary_forbidden" /\ m = "dropped" /\ cfg.vocabulary # None
        \/ e = "metadata_forbidden" /\ cfg.meta.kind # "none"
              /\ m \in {"dropped", "single_label_classification", "multi_label_classification"}
        \/ e = "metadata_not_dataframe" /\ m = "multivariate_regression" /\ cfg.meta.kind = "series"
        \/ e = "metadata_not_series" /\ m = "univariate_regression" /\ cfg.meta.kind = "df"
        \/ e = "bad_modality" /\ m \notin DataModality}

cfg_meta_in_memory_or_absent == mc.meta.kind \in {"none", "df", "series"}

\* C5 as stated: whenever several constraints (temporality or modality-field)
\* are violated at once, construction fails with one error listing all of them
\* (stated for recognised temporality and modality values).
C5_AllViolationsListed ==
    (Constructing /\ cfg_meta_in_memory_or_absent
       /\ mc.temporality \in TemporalityType /\ EffectiveModality(mc) \in DataModality
       /\ Cardinality(TemporalityViolations(mc) \cup ModalityViolations(mc)) >= 2)
    => (last.exc # "none" /\ last.errs = TemporalityViolations(mc) \cup ModalityViolations(mc))

\* C5 amended: a violated temporality constraint is raised at once and alone;
\* when the temporality constraints hold and the metadata is absent or held in
\* memory, every violated modality-field constraint is listed in one ValueError.
C5_ModalityViolationsListed ==
    (Constructing /\ cfg_meta_in_memory_or_absent) =>
        /\ TemporalityViolations(mc) # {} =>
              /\ last.exc # "none"
              /\ Cardinality(last.errs) = 1
              /\ last.errs \subseteq TemporalityViolations(mc)
        /\ (TemporalityViolations(mc) = {} /\ ModalityViolations(mc) # {}) =>
              /\ last.exc = "ValueError"
              /\ last.errs = ModalityViolations(mc)

C5_Witness ==
    /\ Constructing /\ last.exc = "ValueError"
    /\ TemporalityViolations(mc) = {}
    /\ last.errs = {"values_column_required", "metadata_not_dataframe"}

\* C21: construction of a functional_time_dependent config fails with
\* ValueError when the functor is unset; when the modality is unset and
\* construction succeeds, the object's modality is the functor's
\* OUTPUT_MODALITY; when the modality is set, construction succeeds only if it
\* is dropped or the functor's OUTPUT_MODALITY, and then it is kept.
C21_FunctionalTimeDependent ==
    [][(last'.op = "construct" /\ mc.temporality = "functional_time_dependent") =>
        /\ mc.functor = None => (last'.exc = "ValueError" /\ mc' = mc)
        /\ (mc.modality = None /\ last'.exc = "none")
              => mc' = [mc EXCEPT !.modality = OUTPUT_MODALITY(mc.functor)]
        /\ (mc.modality # None /\ last'.exc = "none")
              => (mc.modality \in {"dropped", OUTPUT_MODALITY(mc.functor)} /\ mc' = mc)]_vars

C21_Witness ==
    /\ Constructing /\ last.exc = "none"
    /\ mc.temporality = "functional_time_dependent" /\ mc.functor = "AgeFunctor"
    /\ mc.modality = OUTPUT_MODALITY(mc.functor) /\ mc.meta.kind = "series"

\* C28: reading measurement_metadata returns the slot value when it is absent
\* or in memory and raises ValueError when the slot holds a value that is
\* neither None, a table, a series, a str nor a Path; constructing a regression
\* config with such a value fails with ValueError.
C28_GetterRejectsOtherValues ==
    LET g == measurement_metadata(mc, storage) IN
    /\ mc.meta.kind \in {"none", "df", "series"} => g = Ret("none", mc.meta)
    /\ mc.meta.kind = "other" => g.exc = "ValueError"
    /\ (Constructing /\ mc.meta.kind = "other" /\ mc.temporality = "dynamic" /\ is_numeric(mc))
          => last.exc = "ValueError"

(***************************************************************************)
(* Claims about the MeasurementConfig operations (SpecMC)                  *)
(***************************************************************************)
\* C6: from any state, drop() leaves modality = dropped, vocabulary = None and
\* the metadata slot = None; a second drop() changes nothing; name,
\* temporality, functor, values_column and observation_frequency are kept.
C6_Drop ==
    [][last'.op = "drop" =>
        /\ mc'.modality = "dropped" /\ mc'.vocabulary = None /\ mc'.meta = MetaNone
        /\ drop(mc') = mc'
        /\ mc'.name = mc.name /\ mc'.temporality = mc.temporality
        /\ mc'.functor = mc.functor /\ mc'.values_column = mc.values_column
        /\ mc'.observation_frequency = mc.observation_frequency
        /\ storage' = storage]_vars

C6_Witness ==
    /\ last.op = "drop" /\ mc.modality = "dropped" /\ mc.meta = MetaNone
    /\ mc.values_column = "vals" /\ storage["P"].exists

\* C7: for a numeric config holding in-memory metadata v, cache(P) directly
\* followed by uncache() leaves the slot holding an in-memory value equal to v.
C7_CacheUncacheRoundTrip ==
    (last.op = "uncache" /\ IsInMemory(last.val) /\ is_numeric(mc))
        => (last.exc = "none" /\ mc.meta = last.val)

\* C8: cache_measurement_metadata(fp) changes nothing when already cached at fp,
\* raises and changes nothing when cached elsewhere, changes nothing when there
\* is no metadata, and otherwise writes the metadata to fp and leaves the path
\* sentinel for fp in the slot.
C8_Cache ==
    [][last'.op = "cache" =>
        LET fp == last'.path IN
        /\ (IsPath(mc.meta) /\ mc.meta.path = fp)
              => (last'.exc = "none" /\ mc' = mc /\ storage' = storage)
        /\ (IsPath(mc.meta) /\ mc.meta.path # fp)
              => (last'.exc = "ValueError" /\ mc' = mc /\ storage' = storage)
        /\ mc.meta.kind = "none"
              => (last'.exc = "none" /\ mc' = mc /\ storage' = storage)
        /\ IsInMemory(mc.meta)
              => /\ last'.exc = "none"
                 /\ storage' = [storage EXCEPT ![fp] = to_csv(mc.meta)]
                 /\ mc' = [mc EXCEPT !.meta = MetaPath(fp)]]_vars

C8_Witness ==
    /\ last.op = "cache" /\ last.exc = "ValueError"
    /\ IsPath(mc.meta) /\ last.path # mc.meta.path
    /\ storage[mc.meta.path].exists /\ ~storage[last.path].exists

\* C9: after an assignment of a table or series to measurement_metadata made
\* while the config is cached at P, the slot still holds the path sentinel P,
\* storage at P holds the assigned value, and a read of measurement_metadata
\* returns the assigned value.
C9_WriteThrough ==
    (last.op = "set" /\ last.path # None /\ IsInMemory(last.val))
        => /\ mc.meta = MetaPath(last.path)
           /\ storage[last.path] = to_csv(last.val)
           /\ measurement_metadata(mc, storage) = Ret("none", last.val)

\* C27: after any sequence of drop(), assignments to measurement_metadata,
\* cache, uncache and add_empty_metadata() calls on a successfully constructed
\* config, a call that did not raise leaves a config that still passes
\* _validate(): classification and dropped measurements hold no metadata and
\* regression measurements hold metadata only of the shape of their modality.
C27_OperationsKeepValid ==
    (last.op \in {"drop", "set", "cache", "uncache", "add_empty"} /\ last.exc = "none")
        => validate(mc, storage).exc = "none"

\* The mandatory labels a metadata value carries: columns of a table, index
\* labels of a series.
MandatoryColsOf(v) ==
    PREPROCESSING_METADATA_COLUMNS \cap (IF v.kind = "df" THEN v.columns ELSE v.index)

\* C29: after add_missing_mandatory_metadata_cols() returns on a regression
\* config, a read of measurement_metadata returns a value carrying every
\* mandatory metadata column, whether the metadata was absent, in memory or
\* cached at a path before the call.
C29_MandatoryColsPresent ==
    (last.op = "add_missing" /\ last.exc = "none") =>
        LET g == measurement_metadata(mc, storage) IN
        /\ g.exc = "none"
        /\ IsInMemory(g.val)
        /\ MandatoryColsOf(g.val) = PREPROCESSING_METADATA_COLUMNS

(***************************************************************************)
(* InputDFSchema._unify_schema: schema shorthand -> canonical mapping      *)
(* source column -> (output column, type).                                 *)
(***************************************************************************)
\* Column types: an InputDataType, or the pair (TIMESTAMP, format).
DT(t, fmt) == [type |-> t, fmt |-> fmt]

InputDataTypes == {DT("float", None), DT("categorical", None), DT("timestamp", "%Y")}

\* Stands for a column name that is not a str.
NonStr == "<not a str>"

InCols == {"a", "b"}

\* One call of __add_to_schema: in_col, the out_col argument (None if omitted), dt.
Add(in_col, out_col, dt) == [in_col |-> in_col, out_col |-> out_col, dt |-> dt]

\* The shorthand shapes, each reduced to the __add_to_schema calls it makes, in
\* order: (col, dt); ([cols], dt); {col: dt} / {col: (out, dt)}; ({col: out}, dt);
\* and a literal no case matches.
ColType(c, dt) == [shape |-> "col_type", adds |-> <<Add(c, None, dt)>>]

ColsType(cs, dt) == [shape |-> "cols_type", adds |-> [i \in 1..Len(cs) |-> Add(cs[i], None, dt)]]

DictOf(items) == [shape |-> "dict", adds |-> items]

RenameType(items, dt) ==
    [shape |-> "rename_type", adds |-> [i \in 1..Len(items) |-> Add(items[i][1], items[i][2], dt)]]

Unprocessable == [shape |-> "unprocessable", adds |-> <<>>]

SchemaEntries ==
    {ColType(c, dt) : c \in InCols, dt \in InputDataTypes}
    \cup {ColsType(cs, dt) : cs \in {<<"a", "b">>, <<"a", "a">>}, dt \in InputDataTypes}
    \cup {DictOf(<<Add("a", o, dt)>>) : o \in {None, "a", "x"}, dt \in InputDataTypes}
    \cup {DictOf(<<Add("a", None, dt), Add("b", "x", dt)>>) : dt \in InputDataTypes}
    \cup {RenameType(<<<<"a", o>>>>, dt) : o \in {"a", "x", NonStr}, dt \in InputDataTypes}
    \cup {Unprocessable}

MaxEntries == 2

RECURSIVE SeqsUpTo(_, _)
SeqsUpTo(S, n) ==
    IF n = 0 THEN {<<>>}
    ELSE LET shorter == SeqsUpTo(S, n - 1) IN
         shorter \cup {Append(q, x) : q \in {y \in shorter : Len(y) = n - 1}, x \in S}

EmptySchema == [c \in {} |-> <<>>]

Unified(exc, schema) == [exc |-> exc, schema |-> schema]

\* Mutant of add_to_schema: a repeated column silently overwrites.
add_to_schema_overwrites(container, a) ==
    LET out_col == IF a.out_col = None THEN a.in_col ELSE a.out_col IN
    IF a.in_col = NonStr \/ out_col = NonStr THEN Unified("ValueError", container)
    ELSE Unified("none", [c \in DOMAIN container \cup {a.in_col} |->
                            IF c = a.in_col THEN <<out_col, a.dt>> ELSE container[c]])

\* InputDFSchema.__add_to_schema
add_to_schema(container, a) ==
    LET out_col == IF a.out_col = None THEN a.in_col ELSE a.out_col IN
    IF a.in_col = NonStr \/ out_col = NonStr THEN Unified("ValueError", container)
    ELSE IF a.in_col \in DOMAIN container /\ container[a.in_col] # <<out_col, a.dt>>
         THEN Unified("ValueError", container)
    ELSE Unified("none", [c \in DOMAIN container \cup {a.in_col} |->
                            IF c = a.in_col THEN <<out_col, a.dt>> ELSE container[c]])

RECURSIVE add_all(_, _)
\* The loop over one entry's columns.
add_all(container, adds) ==
    IF adds = <<>> THEN Unified("none", container)
    ELSE LET r == add_to_schema(container, Head(adds)) IN
         IF r.exc # "none" THEN r ELSE add_all(r.schema, Tail(adds))

RECURSIVE unify_from(_, _)
\* The loop over the entries of data_schema.
unify_from(container, entries) ==
    IF entries = <<>> THEN Unified("none", container)
    ELSE IF Head(entries).shape = "unprocessable" THEN Unified("ValueError", container)
    ELSE LET r == add_all(container, Head(entries).adds) IN
         IF r.exc # "none" THEN r ELSE unify_from(r.schema, Tail(entries))

\* A data schema argument: None, one shorthand entry, or a list of entries.
DS(kind, entries) == [kind |-> kind, entries |-> entries]

DSNone == DS("none", <<>>)

\* InputDFSchema._unify_schema; data_schema is None or a list of entries.
unify_schema(data_schema) ==
    IF data_schema.kind = "none" THEN Unified("none", EmptySchema)
    ELSE unify_from(EmptySchema, data_schema.entries)

(***************************************************************************)
(* The unifier applied to every bounded list of shorthand entries.         *)
(***************************************************************************)
Pending == [exc |-> "pending", schema |-> EmptySchema]

InitUnify ==
    /\ inp \in {DSNone} \cup {DS("list", q) : q \in SeqsUpTo(SchemaEntries, MaxEntries)}
    /\ res = Pending
    /\ mc = Idle /\ storage = Idle /\ last = Idle

Unify ==
    /\ res = Pending
    /\ res' = unify_schema(inp)
    /\ UNCHANGED <<inp, mc, storage, last>>

NextUnify == Unify

SpecUnify == InitUnify /\ [][NextUnify]_vars

\* Every __add_to_schema call the entries ask for, with the out_col default applied.
Mappings(entries) ==
    {[in_col |-> e.adds[i].in_col,
      pair |-> <<IF e.adds[i].out_col = None THEN e.adds[i].in_col ELSE e.adds[i].out_col,
                 e.adds[i].dt>>] :
        <<e, i>> \in UNION {{<<entries[k], j>> : j \in 1..Len(entries[k].adds)} : k \in 1..Len(entries)}}

Conflicting(entries) ==
    \E x, y \in Mappings(entries) : x.in_col = y.in_col /\ x.pair # y.pair

WellFormed(entries) ==
    /\ \A k \in 1..Len(entries) : entries[k].shape # "unprocessable"
    /\ \A x \in Mappings(entries) : x.in_col # NonStr /\ x.pair[1] # NonStr

\* C1: unifying fails whenever two entries map the same source column to
\* different (output name, type) pairs; when all entries mapping a column agree
\* it succeeds with exactly that one entry for the column.
C1_Unify ==
    res # Pending =>
        /\ Conflicting(inp.entries) => res.exc = "ValueError"
        /\ (WellFormed(inp.entries) /\ ~Conflicting(inp.entries)) =>
              /\ res.exc = "none"
              /\ DOMAIN res.schema = {x.in_col : x \in Mappings(inp.entries)}
              /\ \A x \in Mappings(inp.entries) : res.schema[x.in_col] = x.pair

C1_Witness ==
    /\ res # Pending /\ res.exc = "none" /\ Len(inp.entries) = 2
    /\ inp.entries[1].shape = "col_type" /\ inp.entries[2].shape = "dict"
    /\ inp.entries[1].adds[1].in_col = "a" /\ inp.entries[2].adds[1].in_col = "a"
    /\ "b" \in DOMAIN res.schema

(***************************************************************************)
(* InputDFSchema                                                           *)
(***************************************************************************)
InputDFType == {"static", "event", "range"}

\* event_type: None, a str, a 3-tuple of str, or anything else (here a pair).
ET(kind, labels) == [kind |-> kind, labels |-> labels]

ETNone == ET("none", <<>>)

\* f"{event_type}_START" and f"{event_type}_END" for the labels in use.
Suffixed(label, suffix) ==
    IF label = "X" THEN (IF suffix = "_START" THEN "X_START" ELSE "X_END")
    ELSE IF suffix = "_START" THEN "Y_START" ELSE "Y_END"

EventTypes == {ETNone, ET("str", <<"X">>), ET("triple", <<"X", "X_S", "X_E">>), ET("other", <<"X", "Y">>)}

FLOAT == DT("float", None)

CATEGORICAL == DT("categorical", None)

DataSchemas == {DSNone, DS("single", <<ColType("a", FLOAT)>>),
                DS("list", <<ColType("a", FLOAT), ColType("a", CATEGORICAL)>>)}

StartDataSchemas == {DSNone, DS("single", <<ColType("a", FLOAT)>>)}

EndDataSchemas == {DSNone, DS("list", <<DictOf(<<Add("a", None, CATEGORICAL)>>)>>),
                   DS("single", <<ColType("b", FLOAT)>>),
                   DS("list", <<ColType("a", FLOAT), ColType("b", FLOAT)>>),
                   DS("single", <<DictOf(<<Add("a", "x", FLOAT)>>)>>)}

\* A must_have entry no case matches.
Malformed == "<malformed filter>"

MustHaves == {<<>>, <<Malformed>>}

Schema(df, ty, et, sid, ts, sts, ets, tf, stf, etf, ds, sds, eds, mh) ==
    [input_df |-> df, type |-> ty, event_type |-> et, subject_id_col |-> sid,
     ts_col |-> ts, start_ts_col |-> sts, end_ts_col |-> ets,
     ts_format |-> tf, start_ts_format |-> stf, end_ts_format |-> etf,
     data_schema |-> ds, start_data_schema |-> sds, end_data_schema |-> eds,
     must_have |-> mh]

unified_event_schema(o) == unify_schema(o.data_schema)

unified_start_schema(o) ==
    IF o.type # "range" THEN Unified("ValueError", EmptySchema)
    ELSE IF o.start_data_schema.kind = "none" THEN unify_schema(o.data_schema)
    ELSE unify_schema(o.start_data_schema)

unified_end_schema(o) ==
    IF o.type # "range" THEN Unified("ValueError", EmptySchema)
    ELSE IF o.end_data_schema.kind = "none" THEN unify_schema(o.data_schema)
    ELSE unify_schema(o.end_data_schema)

unified_eq_schema(o) ==
    IF o.type # "range" THEN Unified("ValueError", EmptySchema)
    ELSE IF o.start_data_schema.kind = "none" /\ o.end_data_schema.kind = "none"
         THEN unify_schema(o.data_schema)
    ELSE unify_schema(DS("list", o.start_data_schema.entries \o o.end_data_schema.entries))

\* The results us of the unifications a unified_schema read makes, in order:
\* the first exception raised, and the schemas.
UnifiedOf(us) ==
    [exc |-> IF \A i \in 1..Len(us) : us[i].exc = "none" THEN "none"
             ELSE us[CHOOSE i \in 1..Len(us) :
                        us[i].exc # "none" /\ \A j \in 1..(i - 1) : us[j].exc = "none"].exc,
     schemas |-> [i \in 1..Len(us) |-> us[i].schema]]

\* Mutant of unified_schema: the start schema comes first.
unified_schema_start_first(o) ==
    IF o.type \in {"event", "static"} THEN UnifiedOf(<<unified_event_schema(o)>>)
    ELSE IF o.type = "range"
        THEN UnifiedOf(<<unified_start_schema(o), unified_eq_schema(o), unified_end_schema(o)>>)
    ELSE [exc |-> "ValueError", schemas |-> <<>>]

\* InputDFSchema.unified_schema: one schema for event and static sources, the
\* list [eq, start, end] for a range source.
unified_schema(o) ==
    IF o.type \in {"event", "static"} THEN UnifiedOf(<<unified_event_schema(o)>>)
    ELSE IF o.type = "range"
        THEN UnifiedOf(<<unified_eq_schema(o), unified_start_schema(o), unified_end_schema(o)>>)
    ELSE [exc |-> "ValueError", schemas |-> <<>>]

\* The source columns of a list of entries in dict (first insertion) order.
RECURSIVE Dedup(_, _)
Dedup(q, seen) ==
    IF q = <<>> THEN <<>>
    ELSE IF Head(q) \in seen THEN Dedup(Tail(q), seen)
    ELSE <<Head(q)>> \o Dedup(Tail(q), seen \cup {Head(q)})

RECURSIVE Flatten(_)
Flatten(entries) ==
    IF entries = <<>> THEN <<>>
    ELSE [i \in 1..Len(Head(entries).adds) |-> Head(entries).adds[i].in_col] \o Flatten(Tail(entries))

\* The (column, type) items of the schemas `us` (unify_schema results), each in
\* the key order `orders` gives, merged as the RANGE branch of columns_to_load does:
\* a repeated column must have the same type.
RECURSIVE merge_columns(_, _, _)
merge_columns(acc, items, strict) ==
    IF items = <<>> THEN [exc |-> "none", cols |-> acc]
    ELSE LET it == Head(items)
             prior == {i \in 1..Len(acc) : acc[i][1] = it[1]}
         IN IF prior = {} THEN merge_columns(Append(acc, it), Tail(items), strict)
            ELSE IF strict \/ \E i \in prior : acc[i][2] # it[2]
                 THEN [exc |-> "ValueError", cols |-> acc]
            ELSE merge_columns(acc, Tail(items), strict)

Items(u, order) ==
    LET ks == Dedup(order, {}) IN [i \in 1..Len(ks) |-> <<ks[i], u.schema[ks[i]][2]>>]

TIMESTAMP == DT("timestamp", None)

\* Mutant of ts_columns: the declared format is not attached.
ts_columns_bare(o) ==
    LET one(col, fmt) == IF col = None THEN <<>> ELSE <<<<col, TIMESTAMP>>>>
    IN one(o.start_ts_col, o.start_ts_format) \o one(o.end_ts_col, o.end_ts_format)
       \o one(o.ts_col, o.ts_format)

\* The timestamp columns appended at the end of columns_to_load.
ts_columns(o) ==
    LET one(col, fmt) == IF col = None THEN <<>>
                         ELSE <<<<col, IF fmt = None THEN TIMESTAMP ELSE DT("timestamp", fmt)>>>>
    IN one(o.start_ts_col, o.start_ts_format) \o one(o.end_ts_col, o.end_ts_format)
       \o one(o.ts_col, o.ts_format)

ListOr(ds, dflt) == IF ds.kind = "none" THEN dflt.entries ELSE ds.entries

\* InputDFSchema.columns_to_load
columns_to_load(o) ==
    IF o.type \in {"event", "static"} THEN
        LET u == unified_event_schema(o) IN
        IF u.exc # "none" THEN [exc |-> u.exc, cols |-> <<>>]
        ELSE LET m == merge_columns(<<>>, Items(u, Flatten(o.data_schema.entries)), TRUE) IN
             IF m.exc # "none" THEN m ELSE [exc |-> "none", cols |-> m.cols \o ts_columns(o)]
    ELSE IF o.type = "range" THEN
        LET eq == unified_eq_schema(o)
            st == unified_start_schema(o)
            en == unified_end_schema(o)
            eqorder == IF o.start_data_schema.kind = "none" /\ o.end_data_schema.kind = "none"
                       THEN Flatten(o.data_schema.entries)
                       ELSE Flatten(o.start_data_schema.entries \o o.end_data_schema.entries)
        IN
        IF eq.exc # "none" THEN [exc |-> eq.exc, cols |-> <<>>]
        ELSE IF st.exc # "none" THEN [exc |-> st.exc, cols |-> <<>>]
        ELSE IF en.exc # "none" THEN [exc |-> en.exc, cols |-> <<>>]
        ELSE LET m == merge_columns(<<>>,
                        Items(eq, eqorder)
                        \o Items(st, Flatten(ListOr(o.start_data_schema, o.data_schema)))
                        \o Items(en, Flatten(ListOr(o.end_data_schema, o.data_schema))), FALSE)
             IN IF m.exc # "none" THEN m ELSE [exc |-> "none", cols |-> m.cols \o ts_columns(o)]
    ELSE [exc |-> "ValueError", cols |-> <<>>]

Built(exc, o) == [exc |-> exc, obj |-> o]

Wrap(ds) == IF ds.kind = "single" THEN DS("list", ds.entries) ELSE ds

\* Mutant of post_init_static: the timestamp columns are not checked.
post_init_static_ignores_ts(o) ==
    IF o.subject_id_col = None THEN Built("ValueError", o)
    ELSE IF o.event_type # ETNone THEN Built("ValueError", o)
    ELSE Built("none", o)

\* The match on self.type of __post_init__ for a static source.
post_init_static(o) ==
    IF o.subject_id_col = None THEN Built("ValueError", o)
    ELSE IF o.event_type # ETNone THEN Built("ValueError", o)
    ELSE IF o.ts_col # None \/ o.start_ts_col # None \/ o.end_ts_col # None
         THEN Built("ValueError", o)
    ELSE Built("none", o)

\* Mutant of post_init_event: subject_id_col is not checked.
post_init_event_allows_subject_id(o) ==
    IF o.ts_col = None THEN Built("ValueError", o)
    ELSE IF o.event_type = ETNone THEN Built("ValueError", o)
    ELSE IF o.event_type.kind # "str" THEN Built("TypeError", o)
    ELSE IF \/ o.start_ts_col # None \/ o.end_ts_col # None
            \/ o.start_ts_format # None \/ o.end_ts_format # None
            \/ o.start_data_schema # DSNone \/ o.end_data_schema # DSNone
         THEN Built("ValueError", o)
    ELSE Built("none", o)

\* ... for an event source.
post_init_event(o) ==
    IF o.ts_col = None THEN Built("ValueError", o)
    ELSE IF o.event_type = ETNone THEN Built("ValueError", o)
    ELSE IF o.event_type.kind # "str" THEN Built("TypeError", o)
    ELSE IF o.subject_id_col # None THEN Built("ValueError", o)
    ELSE IF \/ o.start_ts_col # None \/ o.end_ts_col # None
            \/ o.start_ts_format # None \/ o.end_ts_format # None
            \/ o.start_data_schema # DSNone \/ o.end_data_schema # DSNone
         THEN Built("ValueError", o)
    ELSE Built("none", o)

\* Mutant of post_init_range: a single string event_type is not expanded.
post_init_range_keeps_str(o) ==
    IF o.event_type = ETNone THEN Built("ValueError", o)
    ELSE IF o.event_type.kind \notin {"triple", "str"} THEN Built("TypeError", o)
    ELSE
    LET et == o.event_type
        o1 == [o EXCEPT !.event_type = et]
    IN
    IF o1.data_schema # DSNone /\ (o1.start_data_schema # DSNone \/ o1.end_data_schema # DSNone)
        THEN Built("ValueError", o1)
    ELSE
    LET o2 == IF o1.data_schema # DSNone
              THEN [o1 EXCEPT !.start_data_schema = o1.data_schema,
                              !.end_data_schema = o1.data_schema]
              ELSE o1
    IN
    IF o2.start_ts_col = None \/ o2.end_ts_col = None THEN Built("ValueError", o2)
    ELSE IF o2.ts_col # None THEN Built("ValueError", o2)
    ELSE IF o2.subject_id_col # None THEN Built("ValueError", o2)
    ELSE IF o2.start_ts_format # None THEN
        IF o2.end_ts_format = None \/ o2.ts_format # None THEN Built("ValueError", o2)
        ELSE Built("none", o2)
    ELSE IF o2.end_ts_format # None THEN Built("ValueError", o2)
    ELSE Built("none", [o2 EXCEPT !.start_ts_format = o2.ts_format,
                                  !.end_ts_format = o2.ts_format,
                                  !.ts_format = None])

\* Mutant of post_init_range: the shared data_schema is not copied.
post_init_range_no_copy(o) ==
    IF o.event_type = ETNone THEN Built("ValueError", o)
    ELSE IF o.event_type.kind \notin {"triple", "str"} THEN Built("TypeError", o)
    ELSE
    LET et == IF o.event_type.kind = "triple" THEN o.event_type
              ELSE ET("triple", <<o.event_type.labels[1],
                                  Suffixed(o.event_type.labels[1], "_START"),
                                  Suffixed(o.event_type.labels[1], "_END")>>)
        o1 == [o EXCEPT !.event_type = et]
    IN
    IF o1.data_schema # DSNone /\ (o1.start_data_schema # DSNone \/ o1.end_data_schema # DSNone)
        THEN Built("ValueError", o1)
    ELSE
    LET o2 == o1
    IN
    IF o2.start_ts_col = None \/ o2.end_ts_col = None THEN Built("ValueError", o2)
    ELSE IF o2.ts_col # None THEN Built("ValueError", o2)
    ELSE IF o2.subject_id_col # None THEN Built("ValueError", o2)
    ELSE IF o2.start_ts_format # None THEN
        IF o2.end_ts_format = None \/ o2.ts_format # None THEN Built("ValueError", o2)
        ELSE Built("none", o2)
    ELSE IF o2.end_ts_format # None THEN Built("ValueError", o2)
    ELSE Built("none", [o2 EXCEPT !.start_ts_format = o2.ts_format,
                                  !.end_ts_format = o2.ts_format,
                                  !.ts_format = None])

\* Mutant of post_init_range: the shared ts_format is not cleared.
post_init_range_keeps_ts_format(o) ==
    IF o.event_type = ETNone THEN Built("ValueError", o)
    ELSE IF o.event_type.kind \notin {"triple", "str"} THEN Built("TypeError", o)
    ELSE
    LET et == IF o.event_type.kind = "triple" THEN o.event_type
              ELSE ET("triple", <<o.event_type.labels[1],
                                  Suffixed(o.event_type.labels[1], "_START"),
                                  Suffixed(o.event_type.labels[1], "_END")>>)
        o1 == [o EXCEPT !.event_type = et]
    IN
    IF o1.data_schema # DSNone /\ (o1.start_data_schema # DSNone \/ o1.end_data_schema # DSNone)
        THEN Built("ValueError", o1)
    ELSE
    LET o2 == IF o1.data_schema # DSNone
              THEN [o1 EXCEPT !.start_data_schema = o1.data_schema,
                              !.end_data_schema = o1.data_schema]
              ELSE o1
    IN
    IF o2.start_ts_col = None \/ o2.end_ts_col = None THEN Built("ValueError", o2)
    ELSE IF o2.ts_col # None THEN Built("ValueError", o2)
    ELSE IF o2.subject_id_col # None THEN Built("ValueError", o2)
    ELSE IF o2.start_ts_format # None THEN
        IF o2.end_ts_format = None \/ o2.ts_format # None THEN Built("ValueError", o2)
        ELSE Built("none", o2)
    ELSE IF o2.end_ts_format # None THEN Built("ValueError", o2)
    ELSE Built("none", [o2 EXCEPT !.start_ts_format = o2.ts_format,
                                  !.end_ts_format = o2.ts_format])

\* ... for a range source.
post_init_range(o) ==
    IF o.event_type = ETNone THEN Built("ValueError", o)
    ELSE IF o.event_type.kind \notin {"triple", "str"} THEN Built("TypeError", o)
    ELSE
    LET et == IF o.event_type.kind = "triple" THEN o.event_type
              ELSE ET("triple", <<o.event_type.labels[1],
                                  Suffixed(o.event_type.labels[1], "_START"),
                                  Suffixed(o.event_type.labels[1], "_END")>>)
        o1 == [o EXCEPT !.event_type = et]
    IN
    IF o1.data_schema # DSNone /\ (o1.start_data_schema # DSNone \/ o1.end_data_schema # DSNone)
        THEN Built("ValueError", o1)
    ELSE
    LET o2 == IF o1.data_schema # DSNone
              THEN [o1 EXCEPT !.start_data_schema = o1.data_schema,
                              !.end_data_schema = o1.data_schema]
              ELSE o1
    IN
    IF o2.start_ts_col = None \/ o2.end_ts_col = None THEN Built("ValueError", o2)
    ELSE IF o2.ts_col # None THEN Built("ValueError", o2)
    ELSE IF o2.subject_id_col # None THEN Built("ValueError", o2)
    ELSE IF o2.start_ts_format # None THEN
        IF o2.end_ts_format = None \/ o2.ts_format # None THEN Built("ValueError", o2)
        ELSE Built("none", o2)
    ELSE IF o2.end_ts_format # None THEN Built("ValueError", o2)
    ELSE Built("none", [o2 EXCEPT !.start_ts_format = o2.ts_format,
                                  !.end_ts_format = o2.ts_format,
                                  !.ts_format = None])

\* InputDFSchema.__post_init__ on the keyword arguments kw: the exception raised
\* ("none" if none) and the object's fields afterwards.
post_init(kw) ==
    IF kw.input_df = None \/ kw.type = None THEN Built("ValueError", kw)
    ELSE
    LET o == [kw EXCEPT !.data_schema = Wrap(kw.data_schema),
                        !.start_data_schema = Wrap(kw.start_data_schema),
                        !.end_data_schema = Wrap(kw.end_data_schema)]
    IN
    IF \E i \in 1..Len(o.must_have) : o.must_have[i] = Malformed THEN Built("ValueError", o)
    ELSE
    LET b == IF o.type = "static" THEN post_init_static(o)
             ELSE IF o.type = "event" THEN post_init_event(o)
             ELSE IF o.type = "range" THEN post_init_range(o)
             ELSE Built("none", o)
    IN
    IF b.exc # "none" THEN b
    ELSE Built(columns_to_load(b.obj).exc, b.obj)

\* The declared dataclass fields of InputDFSchema (filter_on is an attribute set
\* by __post_init__, not a field).
Fields ==
    {"input_df", "type", "event_type", "subject_id_col", "ts_col", "start_ts_col",
     "end_ts_col", "ts_format", "start_ts_format", "end_ts_format", "data_schema",
     "start_data_schema", "end_data_schema", "must_have"}

\* JSONableMixin.to_dict on an InputDFSchema: dataclasses.asdict, a dict of the
\* declared fields with copies of their current values (lists stay lists,
\* tuples stay tuples).
to_dict(o) == [f \in Fields |-> o[f]]

\* JSONableMixin.from_dict: cls(**as_dict), which runs __post_init__ again.
from_dict(d) == post_init(d)

(***************************************************************************)
(* Construction of an InputDFSchema and its round trip through to_dict /   *)
(* from_dict.                                                              *)
(***************************************************************************)
OptStr(x) == {None, x}

SchemaInputs ==
    {Schema("df", None, ETNone, None, None, None, None, None, None, None, DSNone, DSNone, DSNone, <<>>)}
    \cup
    {Schema("df", ty, et, sid, ts, sts, ets, tf, stf, etf, ds, sds, eds, mh) :
        ty \in InputDFType, et \in EventTypes, sid \in OptStr("sid"),
        ts \in OptStr("t"), sts \in OptStr("s"), ets \in OptStr("e"),
        tf \in OptStr("F"), stf \in OptStr("F"), etf \in OptStr("G"),
        ds \in DataSchemas, sds \in StartDataSchemas, eds \in EndDataSchemas,
        mh \in MustHaves}

\* Nothing read yet from unified_schema / columns_to_load.
NoUnified == [exc |-> "unread", schemas |-> <<>>]

NoCols == [exc |-> "unread", cols |-> <<>>]

Stage(stage, exc, o, exc2, o2) ==
    [stage |-> stage, exc |-> exc, obj |-> o, exc2 |-> exc2, obj2 |-> o2,
     unified |-> NoUnified, cols |-> NoCols]

InitSchema ==
    /\ inp \in SchemaInputs
    /\ res = Stage("args", "none", inp, "none", inp)
    /\ mc = Idle /\ storage = Idle /\ last = Idle

ConstructSchema ==
    /\ res.stage = "args"
    /\ LET b == post_init(inp) IN res' = Stage("built", b.exc, b.obj, "none", b.obj)
    /\ UNCHANGED <<inp, mc, storage, last>>

RoundTripSchema ==
    /\ res.stage = "built" /\ res.exc = "none"
    /\ LET b == from_dict(to_dict(res.obj)) IN res' = Stage("reloaded", "none", res.obj, b.exc, b.obj)
    /\ UNCHANGED <<inp, mc, storage, last>>

\* A read of schema.unified_schema on the constructed source.
ReadUnifiedSchema ==
    /\ res.stage = "built" /\ res.exc = "none"
    /\ res' = [res EXCEPT !.stage = "unified", !.unified = unified_schema(res.obj)]
    /\ UNCHANGED <<inp, mc, storage, last>>

\* A read of schema.columns_to_load on the constructed source (again after a
\* first read).
ReadColumnsToLoad ==
    /\ res.stage \in {"built", "read"} /\ res.exc = "none"
    /\ res' = [res EXCEPT !.stage = "read", !.cols = columns_to_load(res.obj)]
    /\ UNCHANGED <<inp, mc, storage, last>>

NextSchema == ConstructSchema \/ RoundTripSchema \/ ReadUnifiedSchema \/ ReadColumnsToLoad

SpecSchema == InitSchema /\ [][NextSchema]_vars

\* C2: for every InputDFSchema that constructs successfully,
\* from_dict(to_dict(schema)) constructs successfully and equals the original.
C2_SchemaRoundTrip ==
    res.stage = "reloaded" => (res.exc2 = "none" /\ res.obj2 = res.obj)

\* An InputDFSchema of type ty has been constructed from the arguments inp.
ConstructedAs(ty) == res.stage # "args" /\ inp.type = ty

\* ... and construction raised nothing.
Succeeded(ty) == ConstructedAs(ty) /\ res.exc = "none"

\* C13: a static InputDFSchema constructs successfully only if subject_id_col
\* is set and event_type, ts_col, start_ts_col and end_ts_col are all unset; a
\* static source without subject_id_col always fails.
C13_StaticRules ==
    /\ Succeeded("static") =>
          /\ inp.subject_id_col # None /\ inp.event_type = ETNone
          /\ inp.ts_col = None /\ inp.start_ts_col = None /\ inp.end_ts_col = None
    /\ (ConstructedAs("static") /\ inp.subject_id_col = None) => res.exc # "none"

C13_Witness == Succeeded("static") /\ res.obj.subject_id_col = "sid"

\* C14: an event InputDFSchema constructs successfully only if ts_col is set,
\* event_type is a single string, subject_id_col is unset and start_ts_col,
\* end_ts_col, start_ts_format, end_ts_format, start_data_schema and
\* end_data_schema are all unset.
C14_EventRules ==
    Succeeded("event") =>
        /\ inp.ts_col # None /\ inp.event_type.kind = "str" /\ inp.subject_id_col = None
        /\ inp.start_ts_col = None /\ inp.end_ts_col = None
        /\ inp.start_ts_format = None /\ inp.end_ts_format = None
        /\ inp.start_data_schema.kind = "none" /\ inp.end_data_schema.kind = "none"

C14_Witness == Succeeded("event") /\ res.obj.ts_col = "t" /\ res.obj.event_type.kind = "str"

\* C15: a range InputDFSchema given event_type "X" has event_type
\* ("X", "X_START", "X_END") after construction; a triple of strings is kept
\* unchanged; an unset event_type or any other shape makes construction fail.
C15_RangeEventType ==
    /\ (Succeeded("range") /\ inp.event_type = ET("str", <<"X">>))
          => res.obj.event_type = ET("triple", <<"X", "X_START", "X_END">>)
    /\ (Succeeded("range") /\ inp.event_type.kind = "triple") => res.obj.event_type = inp.event_type
    /\ (ConstructedAs("range") /\ inp.event_type.kind \notin {"str", "triple"}) => res.exc # "none"

C15_Witness == Succeeded("range") /\ inp.event_type.kind = "str" /\ res.obj.event_type.kind = "triple"

\* C16: a range InputDFSchema never constructs when data_schema is set
\* together with start_data_schema or end_data_schema; when only data_schema
\* is set, start_data_schema and end_data_schema both equal data_schema after
\* construction.
C16_RangeSharedDataSchema ==
    /\ (ConstructedAs("range") /\ inp.data_schema.kind # "none"
        /\ (inp.start_data_schema.kind # "none" \/ inp.end_data_schema.kind # "none"))
          => res.exc # "none"
    /\ (Succeeded("range") /\ inp.data_schema.kind # "none")
          => /\ res.obj.data_schema = DS("list", inp.data_schema.entries)
             /\ res.obj.start_data_schema = res.obj.data_schema
             /\ res.obj.end_data_schema = res.obj.data_schema

C16_Witness ==
    /\ Succeeded("range") /\ inp.data_schema.kind = "single"
    /\ res.obj.start_data_schema.kind = "list"

\* C17: a constructed range InputDFSchema has start_ts_col and end_ts_col set,
\* ts_col and ts_format unset, start_ts_format and end_ts_format both set or
\* both unset; given only the shared ts_format F both become F; exactly one of
\* start_ts_format / end_ts_format, or start_ts_format with ts_format, fails.
C17_RangeTimestamps ==
    /\ Succeeded("range") =>
          /\ res.obj.start_ts_col # None /\ res.obj.end_ts_col # None
          /\ res.obj.ts_col = None /\ res.obj.ts_format = None
          /\ (res.obj.start_ts_format = None) <=> (res.obj.end_ts_format = None)
    /\ (Succeeded("range") /\ inp.ts_format # None /\ inp.start_ts_format = None
        /\ inp.end_ts_format = None)
          => res.obj.start_ts_format = inp.ts_format /\ res.obj.end_ts_format = inp.ts_format
    /\ (ConstructedAs("range")
        /\ \/ (inp.start_ts_format = None) # (inp.end_ts_format = None)
           \/ (inp.start_ts_format # None /\ inp.ts_format # None))
          => res.exc # "none"

C17_Witness ==
    /\ Succeeded("range") /\ inp.ts_format = "F" /\ inp.start_ts_format = None
    /\ res.obj.start_ts_format = "F" /\ res.obj.end_ts_format = "F"

\* The range arguments kw are acceptable apart from their data schemas.
RangeFieldsValid(kw) ==
    /\ kw.type = "range" /\ kw.event_type.kind \in {"str", "triple"}
    /\ kw.start_ts_col # None /\ kw.end_ts_col # None /\ kw.ts_col = None
    /\ kw.subject_id_col = None
    /\ (kw.start_ts_format = None) <=> (kw.end_ts_format = None)
    /\ kw.start_ts_format # None => kw.ts_format = None
    /\ \A i \in 1..Len(kw.must_have) : kw.must_have[i] # Malformed

\* The unification of one data schema argument.
UnificationOf(ds) == unify_schema(DS("list", ds.entries))

\* The source columns both the start and the end schema give.
SharedColumns(kw) ==
    DOMAIN UnificationOf(kw.start_data_schema).schema
        \cap DOMAIN UnificationOf(kw.end_data_schema).schema

\* How many entries of the list cols name the column c.
Occurrences(cols, c) == Cardinality({i \in 1..Len(cols) : cols[i][1] = c})

\* C18: for a range source whose start_data_schema and end_data_schema share a
\* source column, construction is rejected exactly when the two give the
\* column different types, whatever output names they give it; when it
\* succeeds the column is loaded once.
C18_RangeSharedColumns ==
    (/\ res.stage # "args" /\ RangeFieldsValid(inp)
     /\ inp.data_schema.kind = "none"
     /\ inp.start_data_schema.kind # "none" /\ inp.end_data_schema.kind # "none"
     /\ UnificationOf(inp.start_data_schema).exc = "none"
     /\ UnificationOf(inp.end_data_schema).exc = "none"
     /\ SharedColumns(inp) # {})
    => /\ res.exc = "none" <=>
            \A c \in SharedColumns(inp) :
                UnificationOf(inp.start_data_schema).schema[c][2]
                    = UnificationOf(inp.end_data_schema).schema[c][2]
       /\ res.exc = "none" =>
            \A c \in SharedColumns(inp) : Occurrences(columns_to_load(res.obj).cols, c) = 1

\* The unification of the data schema arguments given by the caller that the
\* variant of a range source is made of: the shared data_schema if given,
\* otherwise the listed ones in order.
VariantOf(kw, dss) ==
    IF kw.data_schema.kind # "none" THEN UnificationOf(kw.data_schema).schema
    ELSE unify_from(EmptySchema, dss).schema

\* C19: unified_schema of a range source is the list (equal, start, end):
\* start and end unify start_data_schema and end_data_schema, equal unifies
\* the shared data_schema if one was given and otherwise the start and end
\* schemas together; for static and event sources it is the unification of
\* data_schema, empty when data_schema is unset.
C19_UnifiedSchema ==
    res.stage = "unified" =>
        /\ res.unified.exc = "none"
        /\ inp.type = "range" =>
              res.unified.schemas =
                  <<VariantOf(inp, inp.start_data_schema.entries \o inp.end_data_schema.entries),
                    VariantOf(inp, inp.start_data_schema.entries),
                    VariantOf(inp, inp.end_data_schema.entries)>>
        /\ inp.type \in {"static", "event"} =>
              /\ res.unified.schemas = <<UnificationOf(inp.data_schema).schema>>
              /\ inp.data_schema.kind = "none" => res.unified.schemas = <<EmptySchema>>

C19_Witness ==
    /\ res.stage = "unified" /\ inp.type = "range" /\ inp.data_schema.kind = "none"
    /\ Len(res.unified.schemas) = 3
    /\ DOMAIN res.unified.schemas[1] = {"a", "b"}
    /\ DOMAIN res.unified.schemas[2] = {"a"}
    /\ DOMAIN res.unified.schemas[3] = {"b"}

\* The timestamp columns of o that are set, in the order start, end, single,
\* each with the type timestamp and its format (None if no format is set).
SetTimestamps(o) ==
    LET all == <<<<o.start_ts_col, o.start_ts_format>>, <<o.end_ts_col, o.end_ts_format>>,
                 <<o.ts_col, o.ts_format>>>>
        set == SelectSeq(all, LAMBDA x : x[1] # None)
    IN [i \in 1..Len(set) |-> <<set[i][1], [type |-> "timestamp", fmt |-> set[i][2]]>>]

\* The source columns of the unified schema variants us, with the type each
\* variant gives them.
VariantColumns(us) ==
    {<<c, us[i][c][2]>> : <<i, c>> \in {x \in (1..Len(us)) \X InCols : x[2] \in DOMAIN us[x[1]]}}

\* C20: columns_to_load of a constructed source lists every source column of
\* its unified schema variants with that column's type, once each, followed by
\* the timestamp columns that are set (start, end, single) tagged with their
\* format if one is set; a static source lists no timestamp column; the read
\* changes no field and a repeated read returns the same list.
C20_ColumnsToLoad ==
    res.stage = "read" =>
        LET cols == res.cols.cols
            n == Len(cols) - Len(SetTimestamps(res.obj))
        IN /\ res.cols.exc = "none"
           /\ n >= 0
           /\ {cols[i] : i \in 1..n} = VariantColumns(unified_schema(res.obj).schemas)
           /\ \A i, j \in 1..n : cols[i][1] = cols[j][1] => i = j
           /\ SubSeq(cols, n + 1, Len(cols)) = SetTimestamps(res.obj)
           /\ inp.type = "static" => n = Len(cols)
           /\ res.obj = res.obj2
           /\ columns_to_load(res.obj) = res.cols

C20_Witness ==
    /\ res.stage = "read" /\ inp.type = "range" /\ Len(res.cols.cols) = 4
    /\ res.cols.cols[3] = <<"s", [type |-> "timestamp", fmt |-> "F"]>>

(***************************************************************************)
(* DatasetSchema                                                           *)
(***************************************************************************)
Sids == {"sid", "pid"}

\* Keyword arguments of the sources in use.
StaticKw(sid) ==
    Schema("static_df", "static", ETNone, sid, None, None, None, None, None, None,
           DS("single", <<ColType("a", FLOAT)>>), DSNone, DSNone, <<>>)

EventKw(sid) ==
    Schema("events_df", "event", ET("str", <<"X">>), sid, "t", None, None, "F", None, None,
           DS("single", <<ColType("b", FLOAT)>>), DSNone, DSNone, <<>>)

RangeKw ==
    Schema("ranges_df", "range", ET("str", <<"Y">>), None, None, "s", "e", None, None, None,
           DSNone, DS("single", <<ColType("a", FLOAT)>>), DSNone, <<>>)

NoObj ==
    Schema(None, None, ETNone, None, None, None, None, None, None, None, DSNone, DSNone, DSNone, <<>>)

\* InputDFSchema objects that exist before a DatasetSchema is built from them.
Objects == {"o1", "o2"}

NoRef == "no object"

\* An argument of DatasetSchema(static=..., dynamic=[...]): None, a plain dict
\* or an already constructed InputDFSchema object.
Arg(form, kw, ref) == [form |-> form, kw |-> kw, ref |-> ref]

ArgNone == Arg("none", NoObj, NoRef)

ArgDict(kw) == Arg("dict", kw, NoRef)

ArgObj(ref) == Arg("obj", NoObj, ref)

\* The dynamic argument: None or a list.
Dyn(kind, args) == [kind |-> kind, args |-> args]

\* An entry the DatasetSchema holds: a reference to a caller's object, or an
\* object it constructed itself from a dict.
Cell(form, obj, ref) == [form |-> form, obj |-> obj, ref |-> ref]

NoCell == Cell("none", NoObj, NoRef)

Deref(c, heap) == IF c.form = "ref" THEN heap[c.ref] ELSE c.obj

DSResult(exc, static, dynamic, heap, warned) ==
    [exc |-> exc, static |-> static, dynamic |-> dynamic, heap |-> heap, warned |-> warned]

\* The dicts passed as sources below.
DictKws == {StaticKw("sid"), StaticKw("pid"), EventKw(None), EventKw("pid")}

\* InputDFSchema(**kw): __post_init__ on the keyword arguments, kept as a
\* table for the dicts in DictKws.
Constructions == [kw \in DictKws |-> post_init(kw)]

InputDFSchema(kw) == IF kw \in DictKws THEN Constructions[kw] ELSE post_init(kw)

\* The positions for which the warning (subject ID col differs from static)
\* has been printed, after the entry v is compared with the static sid.
warn(warned, v, sid, heap, pos) ==
    IF Deref(v, heap).subject_id_col # sid THEN warned \cup {pos} ELSE warned

RECURSIVE dynamic_loop(_, _, _, _, _)
\* The rest of one iteration once v.subject_id_col is settled: the warning,
\* new_dynamic.append(v) and the check that v is not static.
loop_append(args, sid, heap, acc, warned, v) ==
    IF Deref(v, heap).type = "static"
        THEN DSResult("TypeError", NoCell, Append(acc, v), heap, warn(warned, v, sid, heap, Len(acc) + 1))
    ELSE dynamic_loop(Tail(args), sid, heap, Append(acc, v), warn(warned, v, sid, heap, Len(acc) + 1))

\* One iteration for the entry v: v.subject_id_col is set to the static one if
\* it is None, in the DatasetSchema's own object or in the caller's.
loop_inherit(args, sid, heap, acc, warned, v) ==
    IF Deref(v, heap).subject_id_col # None THEN loop_append(args, sid, heap, acc, warned, v)
    ELSE IF v.form = "own"
        THEN loop_append(args, sid, heap, acc, warned, [v EXCEPT !.obj.subject_id_col = sid])
    ELSE loop_append(args, sid, [heap EXCEPT ![v.ref].subject_id_col = sid], acc, warned, v)

\* One iteration for a dict entry, b being InputDFSchema(**v).
loop_constructed(args, sid, heap, acc, warned, b) ==
    IF b.exc # "none" THEN DSResult(b.exc, NoCell, acc, heap, warned)
    ELSE loop_inherit(args, sid, heap, acc, warned, Cell("own", b.obj, NoRef))

\* The loop over self.dynamic of DatasetSchema.__post_init__; sid is
\* self.static.subject_id_col, acc is new_dynamic.
dynamic_loop(args, sid, heap, acc, warned) ==
    IF args = <<>> THEN DSResult("none", NoCell, acc, heap, warned)
    ELSE IF Head(args).form = "dict"
        THEN loop_constructed(args, sid, heap, acc, warned, InputDFSchema(Head(args).kw))
    ELSE loop_inherit(args, sid, heap, acc, warned, Cell("ref", NoObj, Head(args).ref))

\* DatasetSchema.__post_init__ once self.static is an InputDFSchema object s.
static_checked(s, dynamic, heap) ==
    IF Deref(s, heap).subject_id_col = None THEN DSResult("ValueError", s, <<>>, heap, {})
    ELSE IF dynamic.kind = "none" THEN DSResult("TypeError", s, <<>>, heap, {})
    ELSE [dynamic_loop(dynamic.args, Deref(s, heap).subject_id_col, heap, <<>>, {}) EXCEPT !.static = s]

\* ... for a dict static, b being InputDFSchema(**self.static).
static_constructed(b, dynamic, heap) ==
    IF b.exc # "none" THEN DSResult(b.exc, NoCell, <<>>, heap, {})
    ELSE IF b.obj.type # "static" THEN DSResult("TypeError", Cell("own", b.obj, NoRef), <<>>, heap, {})
    ELSE static_checked(Cell("own", b.obj, NoRef), dynamic, heap)

\* DatasetSchema.__post_init__ on the arguments static and dynamic, with the
\* caller's objects in heap: the exception raised, the fields afterwards and the
\* caller's objects afterwards.
dataset_post_init(static, dynamic, heap) ==
    IF static.form = "none" THEN DSResult("ValueError", NoCell, <<>>, heap, {})
    ELSE IF static.form = "dict" THEN static_constructed(InputDFSchema(static.kw), dynamic, heap)
    ELSE static_checked(Cell("ref", NoObj, static.ref), dynamic, heap)

\* self.dynamic_by_df: the dynamic sources grouped by input_df, in list order.
dynamic_by_df(dynamic, heap) ==
    [k \in {Deref(dynamic[i], heap).input_df : i \in 1..Len(dynamic)} |->
        SelectSeq(dynamic, LAMBDA c : Deref(c, heap).input_df = k)]

\* JSONableMixin.to_dict on a DatasetSchema: dataclasses.asdict recurses into
\* the nested InputDFSchema objects, which become dicts of their fields.
DatasetSchema_to_dict(static, dynamic, heap) ==
    [static |-> to_dict(Deref(static, heap)),
     dynamic |-> [i \in 1..Len(dynamic) |-> to_dict(Deref(dynamic[i], heap))]]

\* JSONableMixin.from_dict on DatasetSchema: cls(**as_dict).
DatasetSchema_from_dict(d, heap) ==
    dataset_post_init(ArgDict(d.static),
                      Dyn("list", [i \in 1..Len(d.dynamic) |-> ArgDict(d.dynamic[i])]), heap)

(***************************************************************************)
(* Building DatasetSchema objects from dicts and from the caller's         *)
(* InputDFSchema objects, which stay the caller's and can be passed again. *)
(***************************************************************************)
MaxDynamic == 2

HeapInputs == {post_init(kw).obj : kw \in {StaticKw("pid"), EventKw(None), RangeKw}}

StaticArgs ==
    {ArgNone} \cup {ArgDict(kw) : kw \in {StaticKw("sid"), StaticKw("pid"), EventKw(None)}}
    \cup {ArgObj(r) : r \in Objects}

DynamicArg ==
    {ArgDict(kw) : kw \in {EventKw(None), EventKw("pid"), StaticKw("sid")}}
    \cup {ArgObj(r) : r \in Objects}

DynamicArgs == {Dyn("none", <<>>)} \cup {Dyn("list", q) : q \in SeqsUpTo(DynamicArg, MaxDynamic)}

Dataset(stage, exc, static, dynamic, warned, exc2, static2, dynamic2) ==
    [stage |-> stage, exc |-> exc, static |-> static, dynamic |-> dynamic, warned |-> warned,
     exc2 |-> exc2, static2 |-> static2, dynamic2 |-> dynamic2]

NoDataset == Dataset("none", "none", NoCell, <<>>, {}, "none", NoCell, <<>>)

InitDataset ==
    /\ inp \in [Objects -> HeapInputs]
    /\ res = NoDataset
    /\ last = Last("init", "none")
    /\ mc = Idle /\ storage = Idle

\* The state after a DatasetSchema construction with outcome r.
Constructs(r) ==
    /\ inp' = r.heap
    /\ res' = Dataset(IF r.exc = "none" THEN "built" ELSE "failed", r.exc, r.static, r.dynamic,
                      r.warned, "none", NoCell, <<>>)
    /\ last' = Last("DatasetSchema", r.exc)

\* DatasetSchema(static=static, dynamic=dynamic)
BuildDataset ==
    /\ \E static \in StaticArgs, dynamic \in DynamicArgs :
            Constructs(dataset_post_init(static, dynamic, inp))
    /\ UNCHANGED <<mc, storage>>

\* The state after reloading the DatasetSchema last built, with outcome r.
Reloads(r) ==
    /\ inp' = r.heap
    /\ res' = [res EXCEPT !.stage = "reloaded", !.exc2 = r.exc, !.static2 = r.static,
                          !.dynamic2 = r.dynamic]
    /\ last' = Last("from_dict", r.exc)

\* DatasetSchema.from_dict(schema.to_dict()) on the DatasetSchema last built.
RoundTripDataset ==
    /\ res.stage = "built"
    /\ Reloads(DatasetSchema_from_dict(DatasetSchema_to_dict(res.static, res.dynamic, inp), inp))
    /\ UNCHANGED <<mc, storage>>

NextDataset == BuildDataset \/ RoundTripDataset

SpecDataset == InitDataset /\ [][NextDataset]_vars

\* The field values of the DatasetSchema as dataclass equality compares them.
FieldValues(static, dynamic, heap) ==
    <<Deref(static, heap), [i \in 1..Len(dynamic) |-> Deref(dynamic[i], heap)]>>

\* C3: for every DatasetSchema that constructs successfully,
\* DatasetSchema.from_dict(schema.to_dict()) constructs successfully and
\* equals the original.
C3_DatasetRoundTrip ==
    last.op = "from_dict" =>
        /\ res.exc2 = "none"
        /\ FieldValues(res.static2, res.dynamic2, inp) = FieldValues(res.static, res.dynamic, inp)

\* C10: right after a successful DatasetSchema construction, every dynamic
\* source has the subject_id_col of that DatasetSchema's static source (no
\* caller sets subject_id_col itself here), also when the object was passed to
\* an earlier DatasetSchema.
C10_InheritsStaticSubjectId ==
    (last.op = "DatasetSchema" /\ res.exc = "none") =>
        \A i \in 1..Len(res.dynamic) :
            Deref(res.dynamic[i], inp).subject_id_col = Deref(res.static, inp).subject_id_col

\* The type of the source an argument denotes, for the caller's objects in heap.
ArgType(a, heap) == IF a.form = "obj" THEN heap[a.ref].type ELSE a.kw.type

\* The subject_id_col an argument's configuration sets.
ArgSid(a, heap) == IF a.form = "obj" THEN heap[a.ref].subject_id_col ELSE a.kw.subject_id_col

\* r is a successful construction whose only dynamic source was warned about
\* and kept the subject_id_col sid.
WarnedAndKept(r, sid) ==
    /\ r.exc = "none"
    /\ r.warned = {1}
    /\ Deref(r.dynamic[1], r.heap).subject_id_col = sid

\* C11: DatasetSchema(static, [v]) with a static source and one event or range
\* source v given as a dict that sets a subject_id_col different from the
\* static one succeeds, prints the warning, and v keeps its own subject_id_col.
C11_ExplicitSubjectIdWarns ==
    \A static \in StaticArgs, dynamic \in DynamicArgs :
        (/\ ArgType(static, inp) = "static" /\ static.form = "dict"
         /\ dynamic.kind = "list" /\ Len(dynamic.args) = 1
         /\ dynamic.args[1].form = "dict"
         /\ dynamic.args[1].kw.type \in {"event", "range"}
         /\ dynamic.args[1].kw.subject_id_col \notin {None, static.kw.subject_id_col})
        => WarnedAndKept(dataset_post_init(static, dynamic, inp), dynamic.args[1].kw.subject_id_col)

\* Some entry of the dynamic argument is of type static.
HasStaticEntry(dynamic, heap) ==
    /\ dynamic.kind = "list"
    /\ \E i \in 1..Len(dynamic.args) : ArgType(dynamic.args[i], heap) = "static"

\* C12: DatasetSchema construction raises ValueError when static is None,
\* TypeError when the static argument (dict or object) is not of type static,
\* and TypeError when static is a static source and some dynamic entry is of
\* type static.
C12_TypeErrors ==
    \A static \in StaticArgs, dynamic \in DynamicArgs :
        /\ static.form = "none" => dataset_post_init(static, dynamic, inp).exc = "ValueError"
        /\ (static.form # "none" /\ ArgType(static, inp) # "static")
              => dataset_post_init(static, dynamic, inp).exc = "TypeError"
        /\ (static.form # "none" /\ ArgType(static, inp) = "static" /\ HasStaticEntry(dynamic, inp)
            /\ \A i \in 1..Len(dynamic.args) : ArgSid(dynamic.args[i], inp) = None
                                                 \/ ArgType(dynamic.args[i], inp) = "static")
              => dataset_post_init(static, dynamic, inp).exc = "TypeError"

(***************************************************************************)
(* MeasurementConfig.to_dict / from_dict / __eq__.  The plain structure    *)
(* keeps the scalar fields, holds the functor as a tagged dict and the     *)
(* metadata as None, a str, the "tight" dict of a table or the label ->    *)
(* value mapping of a series.                                              *)
(***************************************************************************)
FunctorPlain(form, class) == [form |-> form, class |-> class]

FunctorNone == FunctorPlain("none", None)

\* dataclasses.asdict turns a Vocabulary into a dict of its fields.
VocabularyPlain(voc) == IF voc = None THEN None ELSE "vocab_dict"

\* Vocabulary(**as_dict["vocabulary"])
Vocabulary(d) == IF d = None THEN None ELSE "vocab"

\* DataFrame.to_dict(orient="tight"), Series.to_dict(into=OrderedDict), str(path)
metadata_to_plain(m) ==
    [m EXCEPT !.kind = IF m.kind = "df" THEN "tight"
                       ELSE IF m.kind = "series" THEN "mapping"
                       ELSE IF m.kind = "path" THEN "str"
                       ELSE m.kind]

PlainResult(exc, d) == [exc |-> exc, d |-> d]

MeasurementConfig_to_dict(cfg) ==
    LET ftd == cfg.temporality = "functional_time_dependent"
        f == IF cfg.functor = None THEN FunctorNone
             ELSE FunctorPlain(IF ftd THEN "dict" ELSE "obj", cfg.functor)
    IN  PlainResult(IF ftd /\ cfg.functor = None THEN "AttributeError" ELSE "none",
                    [cfg EXCEPT !.functor = f,
                                !.vocabulary = VocabularyPlain(cfg.vocabulary),
                                !.meta = metadata_to_plain(cfg.meta)])

\* The keys of a "tight" dict.
TightKeys == {"index", "columns", "data", "index_names", "column_names"}

\* The match on (_measurement_metadata, modality) of from_dict: the slot value
\* handed to the constructor, or the exception raised.  The fallback case
\* formats as_dict['measurement_metadata'], a key the structure does not have.
metadata_from_plain(pm, modality) ==
    IF pm.kind = "none" THEN Ret("none", MetaNone)
    ELSE IF pm.kind = "str" THEN Ret("none", MetaPath(pm.path))
    ELSE IF pm.kind \in {"tight", "mapping"} /\ modality = "multivariate_regression" THEN
        IF pm.kind = "tight" THEN Ret("none", DataFrame(pm.index, pm.columns, pm.fill))
        ELSE Ret("KeyError", MetaNone)
    ELSE IF pm.kind \in {"tight", "mapping"} /\ modality = "univariate_regression" THEN
        IF pm.kind = "mapping" THEN Ret("none", Series(pm.index, pm.fill))
        ELSE Ret("none", Series(TightKeys, "obj"))
    ELSE Ret("KeyError", MetaNone)

\* The functor handed to the constructor, or the exception raised.
functor_from_plain(pf, temporality) ==
    IF pf.form = "none" THEN [exc |-> "none", functor |-> None]
    ELSE IF temporality # "functional_time_dependent" THEN [exc |-> "ValueError", functor |-> None]
    ELSE IF pf.class \notin FUNCTORS THEN [exc |-> "KeyError", functor |-> None]
    ELSE [exc |-> "none", functor |-> pf.class]

Loaded(exc, cfg) == [exc |-> exc, cfg |-> cfg]

MeasurementConfig_from_dict(d, st) ==
    LET md == metadata_from_plain(d.meta, d.modality)
        f == functor_from_plain(d.functor, d.temporality)
        kw == [d EXCEPT !.vocabulary = Vocabulary(d.vocabulary),
                        !.meta = md.val, !.functor = f.functor]
    IN  IF md.exc # "none" THEN Loaded(md.exc, kw)
        ELSE IF f.exc # "none" THEN Loaded(f.exc, kw)
        ELSE Loaded(construct(kw, st).exc, construct(kw, st).cfg)

\* Python == on two plain structures: containers compare element by element,
\* and the NaN cells that to_dict boxes afresh on every call equal nothing.
PlainEq(a, b) ==
    /\ a = b
    /\ ~(a.meta.kind \in {"tight", "mapping"} /\ a.meta.fill = "nan")

MeasurementConfig_eq(a, b) ==
    PlainEq(MeasurementConfig_to_dict(a).d, MeasurementConfig_to_dict(b).d)

(***************************************************************************)
(* MeasurementConfig.from_dict applied to arbitrary plain structures.      *)
(***************************************************************************)
PlainFunctors == {FunctorNone} \cup {FunctorPlain("dict", c) : c \in FUNCTORS \cup {"UnknownFunctor"}}

PlainMetadata ==
    {metadata_to_plain(m) : m \in {MetaNone, MetaPath("P"), Series({"value_type"}, "obj"),
                                     DataFrame({"k1"}, PREPROCESSING_METADATA_COLUMNS, "obj")}}

PlainInputs ==
    {[Config("m", t, m, None, None, vc, MetaNone) EXCEPT !.functor = f, !.meta = pm] :
        t \in TemporalityType, m \in OptModality, f \in PlainFunctors,
        vc \in {None, "vals"}, pm \in PlainMetadata}

InitFromDict ==
    /\ inp \in PlainInputs
    /\ res = Loaded("unread", inp)
    /\ storage \in {NoFiles, [NoFiles EXCEPT !["P"] = to_csv(Series({"value_type"}, "obj"))]}
    /\ mc = Idle /\ last = Idle

FromDict ==
    /\ res.exc = "unread"
    /\ res' = MeasurementConfig_from_dict(inp, storage)
    /\ UNCHANGED <<inp, mc, storage, last>>

NextFromDict == FromDict

SpecFromDict == InitFromDict /\ [][NextFromDict]_vars

\* C30: MeasurementConfig.from_dict raises ValueError whenever the metadata of
\* the plain structure is a mapping while the modality is not a regression
\* modality, and whenever a functor is present while the temporality is not
\* functional_time_dependent; an unknown functor class tag is rejected with an
\* error.
C30_FromDictErrors ==
    res.exc # "unread" =>
        /\ (inp.meta.kind \in {"tight", "mapping"} /\ ~is_numeric(inp))
              => res.exc = "ValueError"
        /\ (inp.functor.form # "none" /\ inp.temporality # "functional_time_dependent")
              => res.exc = "ValueError"
        /\ (inp.functor.form # "none" /\ inp.functor.class \notin FUNCTORS)
              => res.exc # "none"

(***************************************************************************)
(* DatasetConfig: a dict of measurement name -> MeasurementConfig object   *)
(* (held by reference), the global thresholds, the outlier / normalizer    *)
(* descriptors and save_dir.                                               *)
(***************************************************************************)
\* Floats are held in tenths: Tenths stands for 1.0.
Tenths == 10

\* A threshold argument: None, a float (in tenths), an int, or something else.
Num(type, val) == [type |-> type, val |-> val]

NumNone == Num("none", 0)

\* COUNT_OR_PROPORTION arguments: a float in (0, 1) or an int > 1.
count_or_proportion_check(v) ==
    IF v.type = "none" THEN "none"
    ELSE IF v.type = "float" /\ 0 < v.val /\ v.val < Tenths THEN "none"
    ELSE IF v.type = "int" /\ v.val > 1 THEN "none"
    ELSE IF v.type \in {"float", "int"} THEN "ValueError"
    ELSE "TypeError"

\* PROPORTION arguments: a float in (0, 1).
proportion_check(v) ==
    IF v.type = "none" THEN "none"
    ELSE IF v.type = "float" /\ 0 < v.val /\ v.val < Tenths THEN "none"
    ELSE IF v.type = "float" THEN "ValueError"
    ELSE "TypeError"

\* outlier_detector_config / normalizer_config: None or a dict with key "cls".
Descriptors == {None, "dict_with_cls", "dict_without_cls", "not_a_dict"}

descriptor_check(v) == IF v \in {None, "dict_with_cls"} THEN "none" ELSE "ValueError"

SaveDir(form, dir) == [form |-> form, dir |-> dir]

SaveDirNone == SaveDir("none", None)

Entry(key, ref) == [key |-> key, ref |-> ref]

DatasetConfigKw(entries, mvco, mvveo, muno, mtff, odc, nc, sd) ==
    [measurement_configs |-> entries,
     min_valid_column_observations |-> mvco,
     min_valid_vocab_element_observations |-> mvveo,
     min_unique_numerical_observations |-> muno,
     min_true_float_frequency |-> mtff,
     outlier_detector_config |-> odc,
     normalizer_config |-> nc,
     save_dir |-> sd]

DCResult(exc, cfg, heap) == [exc |-> exc, cfg |-> cfg, heap |-> heap]

\* The first loop of __post_init__: an unnamed config takes its key as name, a
\* config named otherwise raises; the names already filled in stay.
RECURSIVE fill_names(_, _, _)
fill_names(entries, i, heap) ==
    IF i > Len(entries) THEN [exc |-> "none", heap |-> heap]
    ELSE IF heap[entries[i].ref].name = None
         THEN fill_names(entries, i + 1, [heap EXCEPT ![entries[i].ref].name = entries[i].key])
    ELSE IF heap[entries[i].ref].name # entries[i].key THEN [exc |-> "ValueError", heap |-> heap]
    ELSE fill_names(entries, i + 1, heap)

\* The checks of __post_init__ after the names: the exception raised, if any.
dataset_config_checks(kw, heap, st) ==
    IF count_or_proportion_check(kw.min_valid_column_observations) # "none"
        THEN count_or_proportion_check(kw.min_valid_column_observations)
    ELSE IF count_or_proportion_check(kw.min_valid_vocab_element_observations) # "none"
        THEN count_or_proportion_check(kw.min_valid_vocab_element_observations)
    ELSE IF count_or_proportion_check(kw.min_unique_numerical_observations) # "none"
        THEN count_or_proportion_check(kw.min_unique_numerical_observations)
    ELSE IF proportion_check(kw.min_true_float_frequency) # "none"
        THEN proportion_check(kw.min_true_float_frequency)
    ELSE IF descriptor_check(kw.outlier_detector_config) # "none" THEN "ValueError"
    ELSE IF descriptor_check(kw.normalizer_config) # "none" THEN "ValueError"
    ELSE IF \E i \in 1..Len(kw.measurement_configs) :
                validate(heap[kw.measurement_configs[i].ref], st).exc # "none"
        THEN "ValueError"
    ELSE "none"

\* The outcome of the checks run on the objects named(entries) left.
dataset_config_checked(kw, named, st) ==
    IF named.exc # "none" THEN DCResult(named.exc, kw, named.heap)
    ELSE IF dataset_config_checks(kw, named.heap, st) # "none"
         THEN DCResult(dataset_config_checks(kw, named.heap, st), kw, named.heap)
    ELSE DCResult("none",
                  [kw EXCEPT !.save_dir = IF kw.save_dir.form = "str"
                                          THEN SaveDir("path", kw.save_dir.dir) ELSE kw.save_dir],
                  named.heap)

\* DatasetConfig(**kw).__post_init__ on the objects in heap.
dataset_config_post_init(kw, heap, st) ==
    dataset_config_checked(kw, fill_names(kw.measurement_configs, 1, heap), st)

PlainEntry(key, d) == [key |-> key, d |-> d]

DatasetConfig_to_dict(cfg, heap) ==
    [cfg EXCEPT
        !.measurement_configs =
            [i \in 1..Len(cfg.measurement_configs) |->
                PlainEntry(cfg.measurement_configs[i].key,
                           MeasurementConfig_to_dict(heap[cfg.measurement_configs[i].ref]).d)],
        !.save_dir = IF cfg.save_dir.form = "path" THEN SaveDir("str", cfg.save_dir.dir)
                     ELSE cfg.save_dir]

\* The objects from_dict creates, in the order of the entries.
NewObjects == <<"o1", "o2">>

NoMeasurement == Config(None, None, None, None, None, None, MetaNone)

\* The keyword arguments from_dict hands to the constructor.
loaded_kw(d) ==
    [d EXCEPT
        !.measurement_configs =
            [i \in 1..Len(d.measurement_configs) |-> Entry(d.measurement_configs[i].key, NewObjects[i])],
        !.save_dir = IF d.save_dir.form = "str" THEN SaveDir("path", d.save_dir.dir)
                     ELSE d.save_dir]

\* The exception of the first entry MeasurementConfig.from_dict rejects.
loaded_exc(d, st) ==
    LET bad == {i \in 1..Len(d.measurement_configs) :
                    MeasurementConfig_from_dict(d.measurement_configs[i].d, st).exc # "none"}
    IN  IF bad = {} THEN "none"
        ELSE MeasurementConfig_from_dict(
                d.measurement_configs[CHOOSE i \in bad : \A j \in bad : i <= j].d, st).exc

loaded_heap(d, st) ==
    [o \in Objects |->
        IF \E i \in 1..Len(d.measurement_configs) : NewObjects[i] = o
        THEN MeasurementConfig_from_dict(
                d.measurement_configs[CHOOSE i \in 1..Len(d.measurement_configs) : NewObjects[i] = o].d,
                st).cfg
        ELSE NoMeasurement]

DatasetConfig_from_dict(d, st) ==
    IF loaded_exc(d, st) # "none" THEN DCResult(loaded_exc(d, st), loaded_kw(d), loaded_heap(d, st))
    ELSE dataset_config_post_init(loaded_kw(d), loaded_heap(d, st), st)

\* Python == on the two to_dict() structures.
DatasetConfigPlainEq(a, b) ==
    /\ [a EXCEPT !.measurement_configs = <<>>] = [b EXCEPT !.measurement_configs = <<>>]
    /\ Len(a.measurement_configs) = Len(b.measurement_configs)
    /\ \A i \in 1..Len(a.measurement_configs) :
            /\ a.measurement_configs[i].key = b.measurement_configs[i].key
            /\ PlainEq(a.measurement_configs[i].d, b.measurement_configs[i].d)

DatasetConfig_eq(a, heapa, b, heapb) ==
    DatasetConfigPlainEq(DatasetConfig_to_dict(a, heapa), DatasetConfig_to_dict(b, heapb))

(***************************************************************************)
(* The DatasetConfig state machine: the caller's MeasurementConfig objects *)
(* and keyword arguments, the construction, and a reload of its to_dict(). *)
(***************************************************************************)
\* The files present: P holds the cached metadata of a univariate measure.
FilesOfDataset == [NoFiles EXCEPT !["P"] = to_csv(Series({"value_type"}, "obj"))]

MeasurementNames == {None, "m", "n"}

\* The caller's objects: constructed configs, and one that an assignment to
\* measurement_metadata has left invalid.
MeasurementObjects ==
    {construct(c, FilesOfDataset).cfg :
        c \in UNION {{Config(nm, "dynamic", "multi_label_classification", None, "vocab", None, MetaNone),
                       Config(nm, "functional_time_dependent", None, "AgeFunctor", None, None,
                              Series(PREPROCESSING_METADATA_COLUMNS, "obj")),
                       Config(nm, "dynamic", "multivariate_regression", None, None, "vals",
                              DataFrame({"k1"}, {"value_type"}, "nan")),
                       Config(nm, "dynamic", "univariate_regression", None, None, None, MetaPath("P"))} :
                      nm \in MeasurementNames}}
    \cup {measurement_metadata_setter(
                Config(nm, "dynamic", "multi_label_classification", None, None, None, MetaNone),
                FilesOfDataset, DataFrame({}, {"value_type"}, "null")).cfg : nm \in MeasurementNames}

EntryChoices == {Entry(k, o) : k \in {"m", "n"}, o \in Objects}

EntryLists ==
    {<<>>} \cup {<<e>> : e \in EntryChoices}
           \cup {q \in {<<e, f>> : e \in EntryChoices, f \in EntryChoices} : q[1].key # q[2].key}

ThresholdChoices == {Num("float", 5), Num("float", 15), Num("int", 2), Num("int", 1), Num("str", 0)}

\* The keyword arguments besides measurement_configs: all defaults, or one
\* argument set.
DatasetConfigOptions ==
    {DatasetConfigKw(<<>>, NumNone, NumNone, NumNone, NumNone, None, None, SaveDirNone)}
    \cup {DatasetConfigKw(<<>>, v, NumNone, NumNone, NumNone, None, None, SaveDirNone) : v \in ThresholdChoices}
    \cup {DatasetConfigKw(<<>>, NumNone, v, NumNone, NumNone, None, None, SaveDirNone) :
                v \in {Num("int", 3), Num("float", 0)}}
    \cup {DatasetConfigKw(<<>>, NumNone, NumNone, v, NumNone, None, None, SaveDirNone) :
                v \in {Num("float", 9), Num("int", 0)}}
    \cup {DatasetConfigKw(<<>>, NumNone, NumNone, NumNone, v, None, None, SaveDirNone) :
                v \in {Num("float", 5), Num("float", 10), Num("int", 2)}}
    \cup {DatasetConfigKw(<<>>, NumNone, NumNone, NumNone, NumNone, v, None, SaveDirNone) :
                v \in Descriptors \ {None}}
    \cup {DatasetConfigKw(<<>>, NumNone, NumNone, NumNone, NumNone, None, v, SaveDirNone) :
                v \in Descriptors \ {None}}
    \cup {DatasetConfigKw(<<>>, NumNone, NumNone, NumNone, NumNone, None, None, SaveDir(f, "dir")) :
                f \in {"str", "path"}}

DatasetConfigArgs ==
    {[o EXCEPT !.measurement_configs = q] : o \in DatasetConfigOptions, q \in EntryLists}

DCStage(stage, exc, cfg, heap, exc2, cfg2, heap2) ==
    [stage |-> stage, exc |-> exc, cfg |-> cfg, heap |-> heap,
     exc2 |-> exc2, cfg2 |-> cfg2, heap2 |-> heap2]

InitDatasetConfig ==
    /\ inp \in [heap : [Objects -> MeasurementObjects], kw : DatasetConfigArgs]
    /\ res = DCStage("args", "none", inp.kw, inp.heap, "none", inp.kw, inp.heap)
    /\ storage = FilesOfDataset
    /\ mc = Idle /\ last = Idle

\* The state after a DatasetConfig construction with outcome r.
ConstructsConfig(r) ==
    res' = DCStage(IF r.exc = "none" THEN "built" ELSE "failed", r.exc, r.cfg, r.heap,
                   "none", r.cfg, r.heap)

\* DatasetConfig(**inp.kw)
BuildDatasetConfig ==
    /\ res.stage = "args"
    /\ ConstructsConfig(dataset_config_post_init(inp.kw, inp.heap, storage))
    /\ UNCHANGED <<inp, mc, storage, last>>

\* The state after reloading the DatasetConfig built, with outcome r.
ReloadsConfig(r) ==
    res' = [res EXCEPT !.stage = "reloaded", !.exc2 = r.exc, !.cfg2 = r.cfg, !.heap2 = r.heap]

\* DatasetConfig.from_dict(cfg.to_dict())
RoundTripDatasetConfig ==
    /\ res.stage = "built"
    /\ ReloadsConfig(DatasetConfig_from_dict(DatasetConfig_to_dict(res.cfg, res.heap), storage))
    /\ UNCHANGED <<inp, mc, storage, last>>

NextDatasetConfig == BuildDatasetConfig \/ RoundTripDatasetConfig

SpecDatasetConfig == InitDatasetConfig /\ [][NextDatasetConfig]_vars

\* C22: when DatasetConfig construction fails, every MeasurementConfig object
\* passed in measurement_configs is exactly as it was before the call: no name
\* has been filled in and no field has been changed.
C22_FailureLeavesMeasurements ==
    res.stage = "failed" => res.heap = inp.heap

\* The measurement entries of the DatasetConfig built round-trip on their own.
EntriesRoundTrip ==
    \A i \in 1..Len(res.cfg.measurement_configs) :
        LET m == res.heap[res.cfg.measurement_configs[i].ref]
            r == MeasurementConfig_from_dict(MeasurementConfig_to_dict(m).d, storage)
        IN  r.exc = "none" /\ MeasurementConfig_eq(r.cfg, m)

\* C23: for every DatasetConfig that constructs successfully,
\* DatasetConfig.from_dict(cfg.to_dict()) equals the original, and for each of
\* its entries MeasurementConfig.from_dict(m.to_dict()) equals m.
C23_ConfigRoundTrip ==
    res.stage = "reloaded" =>
        /\ res.exc2 = "none"
        /\ DatasetConfig_eq(res.cfg2, res.heap2, res.cfg, res.heap)
        /\ EntriesRoundTrip

(***************************************************************************)
(* VocabularyConfig.total_vocab_size                                       *)
(***************************************************************************)
Measurements == {"a", "b", "c"}

SizeValues == {3, 10}

OffsetValues == {5, 15, 18}

\* dict[str, int]: the functions from some of the measurements to the values.
Tables(values) == UNION {[keys -> values] : keys \in SUBSET Measurements}

\* sum(d.values())
RECURSIVE sum_values(_, _)
sum_values(d, keys) ==
    IF keys = {} THEN 0
    ELSE LET k == CHOOSE x \in keys : TRUE IN d[k] + sum_values(d, keys \ {k})

\* min(d.values()) of a non-empty dict
min_values(d) == CHOOSE v \in {d[k] : k \in DOMAIN d} : \A k \in DOMAIN d : v <= d[k]

Total(exc, val) == [exc |-> exc, val |-> val]

\* Mutant of total_vocab_size: the measurements without a size entry are not
\* counted.
total_vocab_size_without_unsized(sizes, offsets) ==
    IF DOMAIN offsets = {} THEN Total("ValueError", 0)
    ELSE Total("none", sum_values(sizes, DOMAIN sizes) + min_values(offsets))

total_vocab_size(sizes, offsets) ==
    IF DOMAIN offsets = {} THEN Total("ValueError", 0)
    ELSE Total("none",
               sum_values(sizes, DOMAIN sizes) + min_values(offsets)
                 + (Cardinality(DOMAIN offsets) - Cardinality(DOMAIN sizes)))

InitVocab ==
    /\ inp \in [vocab_sizes_by_measurement : Tables(SizeValues),
                 vocab_offsets_by_measurement : Tables(OffsetValues)]
    /\ res = Total("unread", 0)
    /\ mc = Idle /\ storage = Idle /\ last = Idle

ReadTotalVocabSize ==
    /\ res.exc = "unread"
    /\ res' = total_vocab_size(inp.vocab_sizes_by_measurement, inp.vocab_offsets_by_measurement)
    /\ UNCHANGED <<inp, mc, storage, last>>

NextVocab == ReadTotalVocabSize

SpecVocab == InitVocab /\ [][NextVocab]_vars

SeqPaddingSide == {"right", "left"}

\* omegaconf.MISSING, the default of save_dir: the str "???".
MISSING == SaveDir("str", "???")

\* The largest seed random.randint draws.
MaxSeed == 2

SeedChoices == 1..MaxSeed

PytorchKw(sd, mx, mn, side, size, seed) ==
    [save_dir |-> sd, max_seq_len |-> mx, min_seq_len |-> mn, seq_padding_side |-> side,
     subsequence_sampling_strategy |-> "random", train_subset_size |-> size,
     train_subset_seed |-> seed, task_df_name |-> None, do_include_start_time_min |-> FALSE]

\* train_subset_size = "FULL"
FULL == Num("FULL", 0)

\* The match on train_subset_size: the exception raised and the seed the object
\* is left with; drawn is the value random.randint returns if it is called.
train_subset_checks(size, seed, drawn) ==
    IF size.type \in {"none", "FULL"} /\ seed.type # "none" THEN [exc |-> "ValueError", seed |-> seed]
    ELSE IF size.type = "int" /\ size.val < 0 THEN [exc |-> "ValueError", seed |-> seed]
    ELSE IF size.type = "float" /\ (size.val <= 0 \/ size.val >= Tenths)
         THEN [exc |-> "ValueError", seed |-> seed]
    ELSE IF size.type \in {"int", "float"} /\ seed.type = "none"
         THEN [exc |-> "none", seed |-> Num("int", drawn)]
    ELSE IF size.type \in {"none", "FULL", "int", "float"} THEN [exc |-> "none", seed |-> seed]
    ELSE [exc |-> "TypeError", seed |-> seed]

pytorch_post_init(kw, drawn) ==
    LET t == train_subset_checks(kw.train_subset_size, kw.train_subset_seed, drawn)
        sd == IF kw.save_dir.form = "str" /\ kw.save_dir # MISSING
              THEN SaveDir("path", kw.save_dir.dir) ELSE kw.save_dir
    IN  IF kw.seq_padding_side \notin SeqPaddingSide THEN Built("ValueError", kw)
        ELSE IF kw.min_seq_len.type # "int" \/ kw.min_seq_len.val < 0 THEN Built("ValueError", kw)
        ELSE IF kw.max_seq_len.type # "int" \/ kw.max_seq_len.val < kw.min_seq_len.val
             THEN Built("ValueError", kw)
        ELSE IF t.exc # "none" THEN Built(t.exc, [kw EXCEPT !.save_dir = sd])
        ELSE Built("none", [kw EXCEPT !.save_dir = sd, !.train_subset_seed = t.seed])

\* str(save_dir): the path's text, the str itself, or "None".
pytorch_to_dict(o) ==
    [o EXCEPT !.save_dir = SaveDir("str", IF o.save_dir.form = "none" THEN "None" ELSE o.save_dir.dir)]

\* Path(as_dict["save_dir"]), then the constructor.
pytorch_from_dict(d, drawn) ==
    pytorch_post_init([d EXCEPT !.save_dir = SaveDir("path", d.save_dir.dir)], drawn)

\* The generated dataclass __eq__: the objects' fields are equal.
pytorch_eq(a, b) == a = b

PytorchInputs ==
    {PytorchKw(sd, mx, mn, side, size, seed) :
        sd \in {MISSING, SaveDirNone, SaveDir("str", "./dataset"), SaveDir("path", "./dataset")},
        mx \in {Num("int", 1), Num("int", 2), Num("str", 0)},
        mn \in {Num("int", 0), Num("int", 2), Num("int", -1), Num("float", 2)},
        side \in SeqPaddingSide \cup {"up"},
        size \in {NumNone, FULL, Num("int", 5), Num("int", 0), Num("int", -1), Num("float", 5),
                  Num("float", 15), Num("float", 0), Num("str", 0)},
        seed \in {NumNone, Num("int", 1)}}

PStage(stage, exc, o, exc2, o2) ==
    [stage |-> stage, exc |-> exc, obj |-> o, exc2 |-> exc2, obj2 |-> o2]

InitPytorch ==
    /\ inp \in PytorchInputs
    /\ res = PStage("args", "none", inp, "none", inp)
    /\ mc = Idle /\ storage = Idle /\ last = Idle

\* The state after a construction with outcome b.
ConstructsPytorch(b) == res' = PStage("built", b.exc, b.obj, "none", b.obj)

\* PytorchDatasetConfig(**inp)
ConstructPytorch ==
    /\ res.stage = "args"
    /\ \E drawn \in SeedChoices : ConstructsPytorch(pytorch_post_init(inp, drawn))
    /\ UNCHANGED <<inp, mc, storage, last>>

\* The state after a reload with outcome b.
ReloadsPytorch(b) == res' = PStage("reloaded", "none", res.obj, b.exc, b.obj)

\* PytorchDatasetConfig.from_dict(config.to_dict())
RoundTripPytorch ==
    /\ res.stage = "built" /\ res.exc = "none"
    /\ \E drawn \in SeedChoices : ReloadsPytorch(pytorch_from_dict(pytorch_to_dict(res.obj), drawn))
    /\ UNCHANGED <<inp, mc, storage, last>>

NextPytorch == ConstructPytorch \/ RoundTripPytorch

SpecPytorch == InitPytorch /\ [][NextPytorch]_vars

\* C25: for every PytorchDatasetConfig that constructs successfully (save_dir
\* left at its default and an automatically assigned train_subset_seed
\* included), PytorchDatasetConfig.from_dict(cfg.to_dict()) constructs
\* successfully and equals the original.
C25_PytorchRoundTrip ==
    res.stage = "reloaded" => (res.exc2 = "none" /\ pytorch_eq(res.obj2, res.obj))

(***************************************************************************)
(* InputDFSchema with timestamp columns that share a name with a data      *)
(* column or with each other.                                              *)
(***************************************************************************)
SharedNameInputs ==
    {Schema("df", ty, et, sid, ts, sts, ets, tf, None, None, ds, DSNone, DSNone, <<>>) :
        ty \in InputDFType, et \in {ETNone, ET("str", <<"X">>)}, sid \in OptStr("sid"),
        ts \in {None, "t", "a"}, sts \in {None, "s", "a"}, ets \in {None, "e", "s", "b"},
        tf \in OptStr("F"), ds \in DataSchemas}

InitSharedNames ==
    /\ inp \in SharedNameInputs
    /\ res = Stage("args", "none", inp, "none", inp)
    /\ mc = Idle /\ storage = Idle /\ last = Idle

NextSharedNames == ConstructSchema \/ ReadColumnsToLoad

SpecSharedNames == InitSharedNames /\ [][NextSharedNames]_vars

\* C26: in every successfully constructed InputDFSchema each column name occurs
\* at most once in columns_to_load; a configuration that would list a column
\* more than once (a timestamp column that is also declared in the data schema,
\* the same column as start_ts_col and end_ts_col) is rejected at construction.
C26_ColumnsListedOnce ==
    (res.stage = "read" /\ res.exc = "none") =>
        /\ res.cols.exc = "none"
        /\ \A i, j \in 1..Len(res.cols.cols) : res.cols.cols[i][1] = res.cols.cols[j][1] => i = j

====
